---- MODULE Spec2Model ----
(***************************************************************************)
(* Model of the stealth-address plugin: the stealth address engine         *)
(* (src/src/stealth.ts), the payment ledger kept by StealthPlugin and the  *)
(* native-asset withdrawal loop (src/src/stealthPlugin.ts, second class    *)
(* body, lines 1794-5447).                                                 *)
(***************************************************************************)
EXTENDS Integers, Sequences, FiniteSets, TLC

VARIABLES
    \* ---- stealth address engine (Stealth) ----
    keys,        \* the recipient's private keys and the sender's ephemeral key
    genRes,      \* outcome of the last generateStealthAddress call
    openRes,     \* arguments and outcome of the last openStealthAddress call
    \* ---- native-asset withdrawal (withdrawStealthPaymentEnhanced) ----
    wd,          \* the call in progress: position, loop counter, locals, result
    \* ---- withdrawStealthPayment ----
    ladder,      \* the call in progress: position, locals, transactions sent, result
    \* ---- payment ledger (StealthPlugin) ----
    now,                 \* Date.now(), in milliseconds
    paymentState,        \* the table: payment id -> record with status
    paymentCallbacks,    \* number of registered observers
    lastClearTimestamp,  \* time of the last completed clear, 0 when none or reset
    notifStore,          \* stealth_payments/<owner> in the replicated store
    syncPc,              \* "idle", or "reading" while a once() read is outstanding
    pendingSaves,        \* snapshot puts issued and not yet acknowledged or timed out
    clear,               \* clearProcessedPayments in progress and its chain of puts
    scan,                \* scanOnChainPayments in progress
    fx,                  \* what the step just taken did (observer calls, puts, result)
    hist,                \* history: when the last clear completed, forced syncs since,
                         \* the events a scan has ingested
    snapshot,            \* stealth_payment_state/<owner> in the replicated store
    load,                \* loadPaymentState: its once() read and its timer
    \* ---- key derivation (Stealth) ----
    kd,                  \* the signatures the kit rejects, and the calls made so far
    \* ---- fees, key store, sending (StealthPlugin) ----
    fees,                \* the last calculateFees call: its inputs and its outcome
    throwing,            \* the registered observers (by position) whose callback throws
    uk,                  \* the user's stealth keys: store, registry, puts in flight, calls
    send,                \* the last sendStealthPayment call: its inputs and what it did
    wpre,                \* the last withdrawal's way to its ephemeral key and its keys
    ann                  \* a payment's announcement: pkx sent, record scanned, opening

stealthVars == <<keys, genRes, openRes>>
wdVars == <<wd, ladder>>
ledgerVars == <<now, paymentState, paymentCallbacks, lastClearTimestamp, notifStore,
                syncPc, pendingSaves, clear, scan, fx, hist>>
loadVars == <<snapshot, load>>
keyVars == <<kd>>
auxVars == <<fees, throwing, uk, send, wpre, ann>>
nonStealthVars == <<wdVars, ledgerVars, loadVars, keyVars, auxVars>>
nonWdVars == <<stealthVars, ledgerVars, loadVars, keyVars, auxVars>>
nonLedgerVars == <<stealthVars, wdVars, loadVars, keyVars, auxVars>>
nonKeyVars == <<stealthVars, wdVars, ledgerVars, loadVars, auxVars>>
nonAuxVars == <<stealthVars, wdVars, ledgerVars, loadVars, keyVars>>

vars == <<stealthVars, wdVars, ledgerVars, loadVars, keyVars, auxVars>>

None == [none |-> TRUE]

(***************************************************************************)
(* Curve arithmetic.  secp256k1 is scaled down to the subgroup of prime    *)
(* order CURVE_ORDER of the multiplicative group modulo FieldPrime; a      *)
(* point is a residue, scalar multiplication k*P is P^k, the base point is *)
(* GenPoint.  All relations the code relies on (ECDH symmetry, (a*b)*G =   *)
(* a*(b*G), addition of scalars modulo the group order) hold in it.        *)
(***************************************************************************)
CURVE_ORDER == 7
FieldPrime == 29
GenPoint == 16

Scalars == 1 .. (CURVE_ORDER - 1)

RECURSIVE PointMul(_, _)
PointMul(pt, k) == IF k = 0 THEN 1 ELSE (pt * PointMul(pt, k - 1)) % FieldPrime

\* SigningKey.publicKey / new ethers.Wallet(k).signingKey.publicKey: uncompressed
PublicKeyOf(k) == [fmt |-> "uncompressed", pt |-> PointMul(GenPoint, k)]

PubKeys == { [fmt |-> f, pt |-> PointMul(GenPoint, k)] :
                f \in {"uncompressed", "compressed"}, k \in Scalars }

\* 130 hex digits are compressed, 66 hex digits are returned with the prefix
normalizePublicKey(publicKey) ==
    IF publicKey.fmt = "uncompressed"
    THEN [fmt |-> "compressed", pt |-> publicKey.pt]
    ELSE publicKey

\* signingKey.computeSharedSecret(pub): the ECDH point priv * pub
computeSharedSecret(priv, pub) == PointMul(pub.pt, priv)

\* keccak256 as a fixed map into the scalars; the pre-image's domain
\* (which bytes are hashed) selects the map
keccak256(domain, x) ==
    CASE domain = "xy"     -> ((3 * x + 1) % (CURVE_ORDER - 1)) + 1
      [] domain = "04xy"   -> ((5 * x + 2) % (CURVE_ORDER - 1)) + 1
      [] OTHER             -> ((x + 4) % (CURVE_ORDER - 1)) + 1

\* addresses: checksummed as ethers returns them, or lower-cased by a caller
Addresses == { [pt |-> PointMul(GenPoint, k), form |-> f] :
                 k \in Scalars, f \in {"checksum", "lower"} }

toLowerCase(a) == [pt |-> a.pt, form |-> "lower"]

\* new ethers.Wallet(k): throws on a key outside 1 .. n-1
WalletValid(k) == k \in Scalars
WalletAddress(k) == [pt |-> PointMul(GenPoint, k), form |-> "checksum"]

\* addPrivateKeys
addPrivateKeys(key1, key2) == (key1 + key2) % CURVE_ORDER

\* getPrivateKeyFromPublicKey: keccak256("stealth_seed_" + publicKey)
getPrivateKeyFromPublicKey(publicKey) == keccak256("stealth_seed", publicKey.pt)

(***************************************************************************)
(* The curve library's routines (@fluidkey/stealth-account-kit), by their  *)
(* contract: the stealth public key is hash(e * S) * S, the stealth        *)
(* private key hash(s * E) * s.                                            *)
(***************************************************************************)
generateStealthAddresses(ephemeralPrivateKey, spendingPublicKey) ==
    LET shared == PointMul(spendingPublicKey.pt, ephemeralPrivateKey)
        h      == keccak256("xy", shared)
    IN  [pt |-> PointMul(spendingPublicKey.pt, h), form |-> "checksum"]

generateStealthPrivateKey(ephemeralPublicKey, spendingPrivateKey) ==
    LET shared == PointMul(ephemeralPublicKey.pt, spendingPrivateKey)
        h      == keccak256("xy", shared)
    IN  (spendingPrivateKey * h) % CURVE_ORDER

NoKey == 0

\* generateStealthAddressOriginal (fallback path)
generateStealthAddressOriginal(viewingPublicKey, spendingPublicKey, ephemeralPrivateKey, spendingPrivateKey) ==
    LET normalizedViewingKey   == normalizePublicKey(viewingPublicKey)
        normalizedSpendingKey  == normalizePublicKey(spendingPublicKey)
        normalizedEphemeralKey == normalizePublicKey(PublicKeyOf(ephemeralPrivateKey))
        sharedSecret == computeSharedSecret(ephemeralPrivateKey, normalizedViewingKey)
        hashedSharedSecret == keccak256("04xy", sharedSecret)
        spendingKeyToUse ==
            IF spendingPrivateKey # NoKey
            THEN spendingPrivateKey
            ELSE getPrivateKeyFromPublicKey(normalizedSpendingKey)
        stealthPrivateKeyScalar == addPrivateKeys(hashedSharedSecret, spendingKeyToUse)
    IN  IF WalletValid(stealthPrivateKeyScalar)
        THEN [ok |-> TRUE,
              stealthAddress |-> WalletAddress(stealthPrivateKeyScalar),
              ephemeralPublicKey |-> normalizedEphemeralKey,
              path |-> "fallback"]
        ELSE [ok |-> FALSE, error |-> "invalid private key"]

\* generateStealthAddress with the ephemeral private key supplied;
\* libraryRaises: the library call of the primary path raises
generateStealthAddress(viewingPublicKey, spendingPublicKey, ephemeralPrivateKey, spendingPrivateKey, libraryRaises) ==
    IF ~libraryRaises
    THEN [ok |-> TRUE,
          stealthAddress |->
              generateStealthAddresses(ephemeralPrivateKey,
                                       normalizePublicKey(spendingPublicKey)),
          ephemeralPublicKey |-> PublicKeyOf(ephemeralPrivateKey),
          path |-> "primary"]
    ELSE generateStealthAddressOriginal(viewingPublicKey, spendingPublicKey,
                                        ephemeralPrivateKey, spendingPrivateKey)

\* mutant of openStealthAddressOriginal: the address comparison is dropped
openStealthAddressOriginalUnchecked(stealthAddress, ephemeralPublicKey, viewingPrivateKey, spendingPrivateKey) ==
    LET normalizedEphemeralKey == normalizePublicKey(ephemeralPublicKey)
        sharedSecret == computeSharedSecret(viewingPrivateKey, normalizedEphemeralKey)
        hashedSharedSecret == keccak256("04xy", sharedSecret)
        stealthPrivateKeyScalar == addPrivateKeys(hashedSharedSecret, spendingPrivateKey)
    IN  IF ~WalletValid(stealthPrivateKeyScalar)
        THEN [ok |-> FALSE, error |-> "invalid private key"]
        ELSE [ok |-> TRUE, address |-> WalletAddress(stealthPrivateKeyScalar),
              path |-> "fallback"]

\* openStealthAddressOriginal (fallback path)
openStealthAddressOriginal(stealthAddress, ephemeralPublicKey, viewingPrivateKey, spendingPrivateKey) ==
    LET normalizedEphemeralKey == normalizePublicKey(ephemeralPublicKey)
        sharedSecret == computeSharedSecret(viewingPrivateKey, normalizedEphemeralKey)
        hashedSharedSecret == keccak256("04xy", sharedSecret)
        stealthPrivateKeyScalar == addPrivateKeys(hashedSharedSecret, spendingPrivateKey)
    IN  IF ~WalletValid(stealthPrivateKeyScalar)
        THEN [ok |-> FALSE, error |-> "invalid private key"]
        ELSE IF toLowerCase(WalletAddress(stealthPrivateKeyScalar))
                    # toLowerCase(stealthAddress)
        THEN [ok |-> FALSE, error |-> "does not match"]
        ELSE [ok |-> TRUE, address |-> WalletAddress(stealthPrivateKeyScalar),
              path |-> "fallback"]

EmptyString == [empty |-> TRUE]

\* openStealthAddress; libraryRaises: the library call of the primary path raises
openStealthAddress(stealthAddress, ephemeralPublicKey, viewingPrivateKey, spendingPrivateKey, libraryRaises) ==
    IF stealthAddress = EmptyString \/ ephemeralPublicKey = EmptyString
    THEN [ok |-> FALSE, error |-> "All parameters are required"]
    ELSE
    LET normalizedEphemeralPublicKey == normalizePublicKey(ephemeralPublicKey)
        stealthPrivateKey ==
            generateStealthPrivateKey(normalizedEphemeralPublicKey, spendingPrivateKey)
        primaryOk ==
            /\ ~libraryRaises
            /\ WalletValid(stealthPrivateKey)
            /\ toLowerCase(WalletAddress(stealthPrivateKey)) = toLowerCase(stealthAddress)
    IN  IF primaryOk
        THEN [ok |-> TRUE, address |-> WalletAddress(stealthPrivateKey),
              path |-> "primary"]
        ELSE openStealthAddressOriginal(stealthAddress, ephemeralPublicKey,
                                        viewingPrivateKey, spendingPrivateKey)

(***************************************************************************)
(* Stealth engine as a state machine: the keys are drawn at Init, the      *)
(* actions apply generate and open, once each and in either order (both    *)
(* are stateless).                                                         *)
(***************************************************************************)
KdIdle == [lib |-> {}, log |-> <<>>]

StealthIdle == keys = None /\ genRes = None /\ openRes = None /\ kd = KdIdle

InitStealthEngine ==
    /\ keys \in [viewingPrivateKey : Scalars, spendingPrivateKey : Scalars,
                 ephemeralPrivateKey : Scalars]
    /\ genRes = None
    /\ openRes = None
    /\ kd = KdIdle

\* a sender generates a stealth address for the recipient's public keys
Generate ==
    \E passSpendingPrivateKey \in BOOLEAN, libraryRaises \in BOOLEAN :
        /\ genRes = None
        /\ genRes' = generateStealthAddress(
                        PublicKeyOf(keys.viewingPrivateKey),
                        PublicKeyOf(keys.spendingPrivateKey),
                        keys.ephemeralPrivateKey,
                        IF passSpendingPrivateKey THEN keys.spendingPrivateKey ELSE NoKey,
                        libraryRaises)
        /\ UNCHANGED <<keys, openRes>>
        /\ UNCHANGED nonStealthVars

\* the recipient opens a stealth address with their private keys; the address
\* and the ephemeral public key are the caller's inputs
Open ==
    \E stealthAddress \in Addresses \cup {EmptyString},
       ephemeralPublicKey \in PubKeys,
       libraryRaises \in BOOLEAN :
        /\ openRes = None
        /\ openRes' = [stealthAddress |-> stealthAddress,
                       ephemeralPublicKey |-> ephemeralPublicKey,
                       libraryRaises |-> libraryRaises,
                       res |-> openStealthAddress(stealthAddress, ephemeralPublicKey,
                                                  keys.viewingPrivateKey,
                                                  keys.spendingPrivateKey,
                                                  libraryRaises)]
        /\ UNCHANGED <<keys, genRes>>
        /\ UNCHANGED nonStealthVars

(***************************************************************************)
(* Key derivation.  A string is the sequence of its characters, a          *)
(* character a tuple: <<c>> for a character of the text, and for the i-th  *)
(* hex digit of a keccak256 digest the term <<"keccak", i, pre-image>> (no *)
(* two pre-images share a digest).  A signature is scaled down from        *)
(* 64 + 64 + 2 hex digits to PartLen + PartLen + 2, a digest to PartLen    *)
(* hex digits.                                                             *)
(***************************************************************************)
PartLen == 2
MinSigLen == 2 * PartLen          \* 128 in the source
FullSigLen == 2 * PartLen + 2     \* 130 in the source
DefaultV == 27
MaxCalls == 3

Str(chars) == [i \in 1..Len(chars) |-> <<chars[i]>>]

HexDigits == <<"0", "1", "2", "3", "4", "5", "6", "7", "8", "9",
               "a", "b", "c", "d", "e", "f">>

HexVal(c) == (CHOOSE i \in 1..16 : HexDigits[i] = c[1]) - 1

IsHexChar(c) ==
    \/ Len(c) = 1 /\ \E i \in 1..16 : HexDigits[i] = c[1]
    \/ Len(c) = 3

\* /^[0-9a-fA-F]+$/.test(str)
IsHexString(str) == Len(str) > 0 /\ \A i \in 1..Len(str) : IsHexChar(str[i])

\* str.slice(from, to), str.padEnd(n, "0"), str.startsWith("0x")
Slice(str, from, to) ==
    IF from >= Len(str) THEN <<>>
    ELSE SubSeq(str, from + 1, IF to < Len(str) THEN to ELSE Len(str))

PadEnd(str, n) == [i \in 1..(IF Len(str) > n THEN Len(str) ELSE n) |->
                     IF i <= Len(str) THEN str[i] ELSE <<"0">>]

StartsWith0x(str) == Len(str) >= 2 /\ str[1] = <<"0">> /\ str[2] = <<"x">>

Strip0x(str) == IF StartsWith0x(str) THEN Slice(str, 2, Len(str)) ELSE str

\* parseInt(vHex, 16) of two hex digits; v.toString(16).padStart(2, "0")
ParseHexByte(vHex) == 16 * HexVal(vHex[1]) + HexVal(vHex[2])

ToHexByte(v) == Str(<<HexDigits[(v \div 16) + 1], HexDigits[(v % 16) + 1]>>)

\* ethers.keccak256(ethers.toUtf8Bytes(str)): the digest, as a private key
\* and as the string "0x" + its hex digits
keccak256Utf8(str) == [scheme |-> "keccak", of |-> str]

keccak256Utf8Hex(str) ==
    Str(<<"0", "x">>) \o [i \in 1..PartLen |-> <<"keccak", i, str>>]

\* new ethers.Wallet(privateKey): the key pair
Wallet(privateKey) ==
    [privateKey |-> privateKey,
     publicKey |-> [fmt |-> "uncompressed", of |-> privateKey]]

Purposes == {"viewing", "spending"}
DefaultSeed == Str(<<"default_seed">>)

\* mutant of deriveWalletFromSeed: the purpose is left out of the pre-image
deriveWalletFromSeedNoPurpose(seed, purpose) ==
    Wallet(keccak256Utf8(seed \o Str(<<"_", "stealth", "_", "deterministic">>)))

\* deriveWalletFromSeed
deriveWalletFromSeed(seed, purpose) ==
    LET combinedSeed == seed \o Str(<<"_", purpose, "_", "stealth", "_", "deterministic">>)
        seedHash == keccak256Utf8(combinedSeed)
    IN  Wallet(seedHash)

\* the keys of the direct hash method
SeedKeys(seed) ==
    [viewingKey |-> deriveWalletFromSeed(seed, "viewing"),
     spendingKey |-> deriveWalletFromSeed(seed, "spending")]

\* convertStringToFluidkeySignature: r, s, v of a hex string of at least
\* MinSigLen digits, otherwise the signature made of the string's digest
convertStringToFluidkeySignature(signature) ==
    LET cleanSignature == Strip0x(signature)
        paddedSignature == Slice(PadEnd(cleanSignature, FullSigLen), 0, FullSigLen)
        v == ParseHexByte(Slice(paddedSignature, 2 * PartLen, FullSigLen))
        fallbackHash == keccak256Utf8Hex(signature)
    IN  IF /\ signature # <<>>
           /\ Len(cleanSignature) >= MinSigLen
           /\ IsHexString(cleanSignature)
        THEN [r |-> Str(<<"0", "x">>) \o Slice(paddedSignature, 0, PartLen),
              s |-> Str(<<"0", "x">>) \o Slice(paddedSignature, PartLen, 2 * PartLen),
              v |-> IF v = 0 THEN DefaultV ELSE v]
        ELSE [r |-> Str(<<"0", "x">>) \o Slice(fallbackHash, 2, 2 + PartLen),
              s |-> Str(<<"0", "x">>) \o Slice(fallbackHash, 2 + PartLen, 2 + 2 * PartLen),
              v |-> DefaultV]

\* the string generateKeysFromSignature hands to the kit
finalSignature(fk) == Str(<<"0", "x">>) \o Strip0x(fk.r) \o Strip0x(fk.s) \o ToHexByte(fk.v)

\* whether generateKeysFromSignature reaches the kit with this signature
ReachesKit(fk) ==
    /\ IsHexString(Strip0x(fk.r))
    /\ IsHexString(Strip0x(fk.s))
    /\ Len(finalSignature(fk)) = 2 + FullSigLen

\* the kit's key for a purpose (@fluidkey/stealth-account-kit
\* generateKeysFromSignature): a fixed function of the signature
KitKey(purpose, signature) == [scheme |-> "kit", of |-> <<(<<purpose>>)>> \o signature]

\* generateKeysFromSignature; kitRaises: the kit raises, or a key it returns
\* is no valid private key
generateKeysFromSignature(fk, kitRaises) ==
    IF ~ReachesKit(fk) \/ kitRaises
    THEN [ok |-> FALSE]
    ELSE [ok |-> TRUE,
          keys |-> [viewingKey |-> Wallet(KitKey("viewing", finalSignature(fk))),
                    spendingKey |-> Wallet(KitKey("spending", finalSignature(fk)))]]

RECURSIVE getStealthKeys(_, _)

\* mutant of generateStealthKeysFromStringSignature: no catch block, the
\* failure of the library path is the outcome of the call
generateStealthKeysFromStringSignatureNoCatch(signature, isFallback, kitRaises) ==
    LET result == generateKeysFromSignature(convertStringToFluidkeySignature(signature),
                                            kitRaises)
    IN  IF result.ok THEN result.keys ELSE result

\* generateStealthKeysFromStringSignature
generateStealthKeysFromStringSignature(signature, isFallback, kitRaises) ==
    LET fluidkeySignature == convertStringToFluidkeySignature(signature)
        result == generateKeysFromSignature(fluidkeySignature, kitRaises)
    IN  IF result.ok THEN result.keys
        ELSE IF isFallback
        THEN SeedKeys(IF signature = <<>> THEN DefaultSeed ELSE signature)
        ELSE getStealthKeys(signature, kitRaises)

\* getStealthKeys
getStealthKeys(signature, kitRaises) ==
    IF signature # <<>> /\ signature # DefaultSeed
    THEN generateStealthKeysFromStringSignature(signature, TRUE, kitRaises)
    ELSE SeedKeys(IF signature = <<>> THEN DefaultSeed ELSE signature)

\* the strings passed as seed or signature
Signatures ==
    { <<>>, DefaultSeed, Str(<<"h", "i">>),
      Str(<<"0", "x", "a", "b", "c", "d", "1", "b">>),
      Str(<<"a", "b", "c", "d">>),
      Str(<<"a", "b", "c", "d", "1", "c", "f", "f">>),
      Str(<<"a", "b", "z", "d", "1", "b">>) }

\* the signatures that can reach the kit
KitSignatures ==
    { finalSignature(convertStringToFluidkeySignature(sig)) :
        sig \in { x \in Signatures : ReachesKit(convertStringToFluidkeySignature(x)) } }

\* mutant of KitOutcome: the kit may raise on one call and not on the next
KitOutcomeAny(lib, signature, kitRaises) == TRUE

\* the kit computes on the signature alone: on a given signature it raises
\* on every call or on none
KitOutcome(lib, signature, kitRaises) ==
    kitRaises <=> (ReachesKit(convertStringToFluidkeySignature(signature))
                   /\ finalSignature(convertStringToFluidkeySignature(signature)) \in lib)

Call(op, args, result) == [op |-> op, args |-> args, result |-> result]

\* deriveWalletFromSeed(seed, purpose)
DeriveWalletFromSeed ==
    \E seed \in Signatures, purpose \in Purposes :
        /\ Len(kd.log) < MaxCalls
        /\ kd' = [kd EXCEPT !.log = Append(@,
                     Call("deriveWalletFromSeed", <<seed, purpose>>,
                          deriveWalletFromSeed(seed, purpose)))]
        /\ UNCHANGED nonKeyVars

\* getStealthKeys(signature)
GetStealthKeys ==
    \E signature \in Signatures, kitRaises \in BOOLEAN :
        /\ Len(kd.log) < MaxCalls
        /\ KitOutcome(kd.lib, signature, kitRaises)
        /\ kd' = [kd EXCEPT !.log = Append(@,
                     Call("getStealthKeys", <<signature>>,
                          getStealthKeys(signature, kitRaises)))]
        /\ UNCHANGED nonKeyVars

\* generateStealthKeysFromStringSignature(signature), isFallback defaulted
GenerateStealthKeysFromStringSignature ==
    \E signature \in Signatures, kitRaises \in BOOLEAN :
        /\ Len(kd.log) < MaxCalls
        /\ KitOutcome(kd.lib, signature, kitRaises)
        /\ kd' = [kd EXCEPT !.log = Append(@,
                     Call("generateStealthKeysFromStringSignature", <<signature>>,
                          generateStealthKeysFromStringSignature(signature, FALSE,
                                                                 kitRaises)))]
        /\ UNCHANGED nonKeyVars

(***************************************************************************)
(* Repeated calls of generateStealthAddress.  The curve library computes   *)
(* on its arguments alone: the pairs (ephemeral private key, spending      *)
(* public key) it raises on are fixed (kd.lib).                            *)
(***************************************************************************)
MaxGenerateCalls == 2

GenerateScalars == { k \in Scalars : k \in 1..2 }

GeneratePairs == GenerateScalars \X { PublicKeyOf(k) : k \in GenerateScalars }

\* generateStealthAddress(viewingPublicKey, spendingPublicKey,
\* ephemeralPrivateKey, undefined, undefined, spendingPrivateKey?)
GenerateStealthAddress ==
    \E viewingPrivateKey \in GenerateScalars, spendingPrivateKey \in GenerateScalars,
       ephemeralPrivateKey \in GenerateScalars, passSpendingPrivateKey \in BOOLEAN :
        LET spendingPublicKey == PublicKeyOf(spendingPrivateKey)
            viewingPublicKey == PublicKeyOf(viewingPrivateKey)
            libraryRaises == <<ephemeralPrivateKey, spendingPublicKey>> \in kd.lib
        IN  /\ Len(kd.log) < MaxGenerateCalls
            /\ kd' = [kd EXCEPT !.log = Append(@,
                        Call("generateStealthAddress",
                             [viewingPublicKey |-> viewingPublicKey,
                              spendingPublicKey |-> spendingPublicKey,
                              ephemeralPrivateKey |-> ephemeralPrivateKey,
                              spendingPrivateKey |->
                                  IF passSpendingPrivateKey THEN spendingPrivateKey
                                  ELSE NoKey],
                             generateStealthAddress(
                                 viewingPublicKey, spendingPublicKey, ephemeralPrivateKey,
                                 IF passSpendingPrivateKey THEN spendingPrivateKey
                                 ELSE NoKey,
                                 libraryRaises)))]
            /\ UNCHANGED nonKeyVars

(***************************************************************************)
(* withdrawStealthPaymentEnhanced.  Amounts are in gwei (10^9 wei), so the *)
(* default gas price 20000000000 wei is 20.  One action is one iteration   *)
(* of the retry loop; the chain calls' outcomes are the action's inputs.   *)
(***************************************************************************)
maxRetries == 20
DefaultGasLimit == 21000
DefaultGasPrice == 20
OptimismChainId == 10
BaseChainId == 8453

\* error objects: a message (a sequence of words), or an object without one
Err(words) == [message |-> words]
ErrNoMessage == [nomessage |-> TRUE]
InsufficientFundsRpcError ==
    Err(<<"insufficient", "funds", "for", "intrinsic", "transaction", "cost">>)
InsufficientBalanceForGas == Err(<<"Insufficient", "balance", "for", "gas", "costs">>)
NetworkError == Err(<<"network", "error">>)
NoBalanceError == Err(<<"No", "ETH", "balance", "in", "stealth", "address">>)
KeysNotFoundError == Err(<<"Stealth", "keys", "not", "found">>)
PaymentNotFoundError == Err(<<"Payment", "not", "found">>)
OpenFailedError == Err(<<"does", "not", "match">>)
FailedAfterRetries(lastError) ==
    [message |-> <<"Failed", "to", "withdraw", "after", maxRetries, "attempts">>,
     last |-> lastError]

ChainErrors == {InsufficientFundsRpcError, NetworkError, ErrNoMessage}

\* String.prototype.includes on the words of a message
Includes(s, p) ==
    \E i \in 0 .. (Len(s) - Len(p)) : SubSeq(s, i + 1, i + Len(p)) = p

\* mutant of RetriesOn: every failure is retried
RetriesOnAnyError(error) == TRUE

\* the catch block's test: error.message?.includes("insufficient funds")
RetriesOn(error) ==
    /\ "message" \in DOMAIN error
    /\ Includes(error.message, <<"insufficient", "funds">>)

\* mutant of LoopContinues: one iteration too many
LoopContinuesInclusive(retryCount) == retryCount <= maxRetries

\* the for loop's condition
LoopContinues(retryCount) == retryCount < maxRetries

Min(a, b) == IF a < b THEN a ELSE b

\* the value the iteration sends
AdjustedValue(balance, gasCost, chainId, retryCount) ==
    IF chainId = OptimismChainId \/ chainId = BaseChainId
    THEN (balance - gasCost) - ((gasCost * Min(retryCount, 20)) \div 100)
    ELSE balance - gasCost

Ok == [ok |-> TRUE]
Balances == {0, 300000}
GasPrices == {0, 10}        \* 0: feeData.gasPrice is null
GasEstimates == {0, 30000}  \* 0: estimateGas raises
ChainIds == {1, OptimismChainId, BaseChainId}   \* 1: a layer-1 chain

WithdrawIdleRec(chainId) ==
    [pc |-> "idle", retryCount |-> 0, balance |-> 0, chainId |-> chainId,
     submitted |-> 0, lastError |-> None, lastTx |-> None, result |-> None]

\* withdrawStealthPayment not called yet
LadderIdle ==
    [pc |-> "idle", balance |-> 0, gasPrice |-> 0, estimatedGasLimit |-> 0, i |-> 1,
     attempts |-> <<>>, result |-> None]

WithdrawIdle == wd = WithdrawIdleRec(1) /\ ladder = LadderIdle

\* the call up to the loop: keys, ephemeral key, open, balance, connect
WithdrawStart ==
    \E prelude \in {Ok, KeysNotFoundError, PaymentNotFoundError, OpenFailedError},
       balance \in Balances, chainId \in ChainIds :
        /\ wd.pc \in {"idle", "done"}
        /\ wd' = IF prelude # Ok
                 THEN [WithdrawIdleRec(chainId) EXCEPT
                          !.pc = "done", !.result = [ok |-> FALSE, error |-> prelude]]
                 ELSE IF balance = 0
                 THEN [WithdrawIdleRec(chainId) EXCEPT
                          !.pc = "done",
                          !.result = [ok |-> FALSE, error |-> NoBalanceError]]
                 ELSE [WithdrawIdleRec(chainId) EXCEPT
                          !.pc = "loop", !.balance = balance]
        /\ UNCHANGED ladder
        /\ UNCHANGED nonWdVars

\* the outcome of one iteration's body, before the catch block:
\* [error, sent, tx] where sent says whether sendTransaction was called.
\* failAt names the first chain call that raises (or "none"), err its error
IterationBody(balance, chainId, retryCount, gasPriceIn, estimate, failAt, err) ==
    LET gasPrice     == IF gasPriceIn = 0 THEN DefaultGasPrice ELSE gasPriceIn
        estimatedGas == IF estimate = 0 THEN DefaultGasLimit ELSE estimate
        gasCost      == estimatedGas * gasPrice
        adjustedValue == AdjustedValue(balance, gasCost, chainId, retryCount)
        tx == [value |-> adjustedValue, gasLimit |-> estimatedGas, gasPrice |-> gasPrice]
    IN  IF failAt = "getFeeData" THEN [error |-> err, sent |-> FALSE, tx |-> None]
        ELSE IF failAt = "getNetwork" THEN [error |-> err, sent |-> FALSE, tx |-> None]
        ELSE IF adjustedValue <= 0
        THEN [error |-> InsufficientBalanceForGas, sent |-> FALSE, tx |-> None]
        ELSE IF failAt = "sendTransaction" THEN [error |-> err, sent |-> TRUE, tx |-> tx]
        ELSE IF failAt = "wait" THEN [error |-> err, sent |-> TRUE, tx |-> tx]
        ELSE [error |-> Ok, sent |-> TRUE, tx |-> tx]

ChainCalls == {"getFeeData", "getNetwork", "sendTransaction", "wait"}

\* one iteration of the retry loop, with its catch block and, on the last
\* iteration, the throw that follows the loop
Attempt ==
    \E gasPriceIn \in GasPrices, estimate \in GasEstimates,
       failAt \in ChainCalls \cup {"none"}, err \in ChainErrors :
        LET body == IterationBody(wd.balance, wd.chainId, wd.retryCount,
                                  gasPriceIn, estimate, failAt, err)
            submitted == IF body.sent THEN wd.submitted + 1 ELSE wd.submitted
            lastTx == IF body.sent THEN body.tx ELSE wd.lastTx
        IN  /\ wd.pc = "loop"
            /\ LoopContinues(wd.retryCount)
            /\ wd' =
                 IF body.error = Ok
                 THEN [wd EXCEPT !.pc = "done", !.submitted = submitted,
                                 !.lastTx = lastTx, !.result = [ok |-> TRUE, tx |-> body.tx]]
                 ELSE IF ~RetriesOn(body.error)
                 THEN [wd EXCEPT !.pc = "done", !.submitted = submitted,
                                 !.lastTx = lastTx, !.lastError = body.error,
                                 !.result = [ok |-> FALSE, error |-> body.error]]
                 ELSE IF LoopContinues(wd.retryCount + 1)
                 THEN [wd EXCEPT !.retryCount = @ + 1, !.submitted = submitted,
                                 !.lastTx = lastTx, !.lastError = body.error]
                 ELSE [wd EXCEPT !.pc = "done", !.retryCount = @ + 1,
                                 !.submitted = submitted, !.lastTx = lastTx,
                                 !.lastError = body.error,
                                 !.result = [ok |-> FALSE,
                                             error |-> FailedAfterRetries(body.error)]]
            /\ UNCHANGED ladder
            /\ UNCHANGED nonWdVars


(***************************************************************************)
(* Payment ledger.  The model covers a session of an authenticated owner   *)
(* (gun.user().is.pub is set) whose listener has been started by           *)
(* initialize.  A store key is a string; what the filters test of it is    *)
(* given by KeyIsNumeric, KeyStartsWith0x and KeyIsSpecial.                *)
(***************************************************************************)
TickMs == 30000          \* the clock advances in steps of TickMs
MaxTicks == 1
StartTime == 100000      \* Date.now() when the session starts
ItemTime == 50000        \* the timestamp a sender wrote into a notification
MaxPendingSaves == 1
MaxObservers == 1
CooldownMs == 30000
ETH_TOKEN_PLACEHOLDER == "0xEeeeeEeeeEeEeeEeEeEeeEEEeeeeEeeeeeeeEEeE"

StoreKeys == {"0xA", "pay"}
KeyOrder == <<"0xA", "pay", "123", "_">>     \* Object.keys order
\* !isNaN(Number(key)): decimal and 0x-prefixed hexadecimal strings are numbers
KeyIsNumeric(key) == key \in {"0xA", "123"}
KeyStartsWith0x(key) == key = "0xA"
\* key.startsWith("_") || key.startsWith("#") || key.startsWith(">")
KeyIsSpecial(key) == key \in {"_", "#", ">"}

Item(amount, timestamp) ==
    [amount |-> amount, ephemeralPublicKey |-> "0xE", sender |-> "S",
     message |-> "", timestamp |-> timestamp, token |-> "", meta |-> FALSE]

\* what senders and peers write under each key (timestamp 0: none)
StoreEntries ==
    { <<"0xA", Item("1", ItemTime)>>, <<"0xA", Item("", ItemTime)>>,
      <<"pay", Item("2", 0)>> }

EmptyNode == [k \in {} |-> None]
EmptyTable == [id \in {} |-> None]

\* mutant of getPaymentId: the key is made of the stealth address alone
getPaymentIdAddressOnly(payment) == <<payment.stealthAddress, 0>>

\* getPaymentId: stealthAddress + "_" + timestamp
getPaymentId(payment) == <<payment.stealthAddress, payment.timestamp>>

\* isPaymentDuplicate
isPaymentDuplicate(table, payment) == getPaymentId(payment) \in DOMAIN table

\* the StealthPaymentNotification built from a store entry
Notification(key, item, nowT) ==
    [stealthAddress |-> key,
     amount |-> item.amount,
     ephemeralPublicKey |-> item.ephemeralPublicKey,
     sender |-> item.sender,
     message |-> item.message,
     timestamp |-> IF item.timestamp # 0 THEN item.timestamp ELSE nowT,
     token |-> IF item.token # "" THEN item.token ELSE ETH_TOKEN_PLACEHOLDER]

\* item.amount && item.ephemeralPublicKey && item.sender && !item._
ItemIsPayment(item) ==
    /\ item.amount # ""
    /\ item.ephemeralPublicKey # ""
    /\ item.sender # ""
    /\ ~item.meta

\* the key filter of handleGunData
ListenerAcceptsKey(key, item) ==
    /\ ~KeyIsNumeric(key)
    /\ ~KeyIsSpecial(key)
    /\ ~item.meta

\* mutant of SyncAcceptsKey: the listener's filter, without the 0x exception
SyncAcceptsKeyNo0x(key) == ~KeyIsNumeric(key) /\ ~KeyIsSpecial(key)

\* the key filter of syncNotificationsWithState
SyncAcceptsKey(key) ==
    /\ ~(KeyIsNumeric(key) /\ ~KeyStartsWith0x(key))
    /\ ~KeyIsSpecial(key)

\* accumulated effects of a handler: the table, the ids handed to ingest, the
\* ids inserted, observer calls and snapshot puts
Acc(table) == [table |-> table, ids |-> {}, new |-> {}, calls |-> 0, called |-> <<>>, saves |-> 0]

\* mutant of notifyCallbacks: an observer that throws ends the forEach
notifyCallbacksUntilThrow(callbacks, throwers, paymentId) ==
    [i \in 1..(IF \E t \in throwers : t <= callbacks
               THEN CHOOSE t \in throwers : t <= callbacks /\ \A u \in throwers : t <= u
               ELSE callbacks) |->
        [paymentId |-> paymentId, observer |-> i, threw |-> i \in throwers]]

\* paymentCallbacks.forEach of addPaymentToState: the calls made, in order;
\* an observer's exception is caught and logged
notifyCallbacks(callbacks, throwers, paymentId) ==
    [i \in 1..callbacks |->
        [paymentId |-> paymentId, observer |-> i, threw |-> i \in throwers]]

\* mutant of addPaymentToState: no duplicate check
addPaymentToStateOverwriting(acc, payment, callbacks, saveThrows) ==
    LET paymentId == getPaymentId(payment)
    IN  [table |-> [id \in DOMAIN acc.table \cup {paymentId} |->
                      IF id = paymentId
                      THEN [stealthAddress |-> payment.stealthAddress,
                            amount |-> payment.amount,
                            ephemeralPublicKey |-> payment.ephemeralPublicKey,
                            sender |-> payment.sender, message |-> payment.message,
                            timestamp |-> payment.timestamp, token |-> payment.token,
                            status |-> "pending"]
                      ELSE acc.table[id]],
         ids |-> acc.ids \cup {paymentId},
         new |-> acc.new \cup {paymentId},
         calls |-> acc.calls + Len(notifyCallbacks(callbacks, throwing, paymentId)),
         called |-> acc.called \o notifyCallbacks(callbacks, throwing, paymentId),
         saves |-> acc.saves + (IF saveThrows THEN 0 ELSE 1)]

\* mutant of addPaymentToState: the record is kept only if the save did not throw
addPaymentToStateSaveFirst(acc, payment, callbacks, saveThrows) ==
    LET paymentId == getPaymentId(payment)
    IN  IF isPaymentDuplicate(acc.table, payment) \/ saveThrows
        THEN [acc EXCEPT !.ids = @ \cup {paymentId}]
        ELSE addPaymentToStateOverwriting(acc, payment, callbacks, saveThrows)

\* addPaymentToState; saveThrows: savePaymentState throws or rejects at once
addPaymentToState(acc, payment, callbacks, saveThrows) ==
    LET paymentId == getPaymentId(payment)
    IN  IF isPaymentDuplicate(acc.table, payment)
        THEN [acc EXCEPT !.ids = @ \cup {paymentId}]
        ELSE [table |-> [id \in DOMAIN acc.table \cup {paymentId} |->
                           IF id = paymentId
                           THEN [stealthAddress |-> payment.stealthAddress,
                                 amount |-> payment.amount,
                                 ephemeralPublicKey |-> payment.ephemeralPublicKey,
                                 sender |-> payment.sender, message |-> payment.message,
                                 timestamp |-> payment.timestamp, token |-> payment.token,
                                 status |-> "pending"]
                           ELSE acc.table[id]],
              ids |-> acc.ids \cup {paymentId},
              new |-> acc.new \cup {paymentId},
              calls |-> acc.calls + Len(notifyCallbacks(callbacks, throwing, paymentId)),
              called |-> acc.called \o notifyCallbacks(callbacks, throwing, paymentId),
              saves |-> acc.saves + (IF saveThrows THEN 0 ELSE 1)]

\* the loop of handleGunData over Object.keys(data), from position i
RECURSIVE handleGunDataLoop(_, _, _, _, _, _)
handleGunDataLoop(acc, data, i, nowT, callbacks, saveThrows) ==
    IF i > Len(KeyOrder) THEN acc
    ELSE LET key == KeyOrder[i]
             next ==
                IF /\ key \in DOMAIN data
                   /\ ListenerAcceptsKey(key, data[key])
                   /\ ItemIsPayment(data[key])
                THEN addPaymentToState(acc, Notification(key, data[key], nowT),
                                       callbacks, saveThrows)
                ELSE acc
         IN  handleGunDataLoop(next, data, i + 1, nowT, callbacks, saveThrows)

\* the notifications.forEach of syncNotificationsWithState, from position i
RECURSIVE syncLoop(_, _, _, _, _, _)
syncLoop(acc, data, i, nowT, callbacks, saveThrows) ==
    IF i > Len(KeyOrder) THEN acc
    ELSE LET key == KeyOrder[i]
             next ==
                IF /\ key \in DOMAIN data
                   /\ SyncAcceptsKey(key)
                   /\ ItemIsPayment(data[key])
                THEN LET notification == Notification(key, data[key], nowT)
                     IN  IF getPaymentId(notification) \notin DOMAIN acc.table
                         THEN addPaymentToState(acc, notification, callbacks, saveThrows)
                         ELSE [acc EXCEPT !.ids = @ \cup {getPaymentId(notification)}]
                ELSE acc
         IN  syncLoop(next, data, i + 1, nowT, callbacks, saveThrows)

Cap(n) == IF n > MaxPendingSaves THEN MaxPendingSaves ELSE n

NoFx == [kind |-> "none", ids |-> {}, new |-> {}, calls |-> 0, called |-> <<>>, saves |-> 0,
         threw |-> FALSE, info |-> None]

Never == 0 - 1

NoData == [form |-> "none"]

ClearIdle == [call |-> "idle", total |-> 0, startedAt |-> 0, chain |-> "none",
              issued |-> {}]
ScanIdle == [pc |-> "idle", queue |-> <<>>, foundPayments |-> 0, savedPayments |-> 0]

\* no keys stored or registered, nobody signed in, no call made
UkIdle ==
    [userIs |-> FALSE, signer |-> FALSE, sea |-> <<>>, chain |-> None,
     gun |-> [private |-> None, public |-> None], pending |-> <<>>, log |-> <<>>]

AuxIdle == fees = None /\ throwing = {} /\ uk = UkIdle /\ send = None /\ wpre = None /\ ann = None

LedgerIdle ==
    /\ AuxIdle
    /\ now = StartTime
    /\ paymentState = EmptyTable
    /\ paymentCallbacks = 0
    /\ lastClearTimestamp = 0
    /\ notifStore = EmptyNode
    /\ syncPc = "idle"
    /\ pendingSaves = 0
    /\ clear = ClearIdle
    /\ scan = ScanIdle
    /\ fx = NoFx
    /\ hist = [clearDoneAt |-> Never, forced |-> FALSE, scanned |-> {}]
    /\ snapshot = NoData
    /\ load = "idle"

InitLedgerState ==
    /\ AuxIdle
    /\ now = StartTime
    /\ paymentState = EmptyTable
    /\ paymentCallbacks = MaxObservers
    /\ lastClearTimestamp = 0
    /\ notifStore = EmptyNode
    /\ syncPc = "idle"
    /\ pendingSaves = 0
    /\ clear = ClearIdle
    /\ scan = ScanIdle
    /\ fx = NoFx
    /\ hist = [clearDoneAt |-> Never, forced |-> FALSE, scanned |-> {}]
    /\ snapshot = NoData
    /\ load = "idle"

\* time passes
Tick ==
    /\ now < StartTime + MaxTicks * TickMs
    /\ now' = now + TickMs
    /\ fx' = NoFx
    /\ UNCHANGED <<paymentState, paymentCallbacks, lastClearTimestamp, notifStore,
                   syncPc, pendingSaves, clear, scan, hist>>
    /\ UNCHANGED nonLedgerVars

\* a sender or a peer writes a notification entry of the owner
RemotePut ==
    \E e \in StoreEntries :
        /\ IF e[1] \in DOMAIN notifStore THEN notifStore[e[1]] # e[2] ELSE TRUE
        /\ notifStore' = [k \in DOMAIN notifStore \cup {e[1]} |->
                            IF k = e[1] THEN e[2] ELSE notifStore[k]]
        /\ fx' = NoFx
        /\ UNCHANGED <<now, paymentState, paymentCallbacks, lastClearTimestamp,
                       syncPc, pendingSaves, clear, scan, hist>>
        /\ UNCHANGED nonLedgerVars

\* handleGunData: the live subscription delivers the owner's node;
\* hasMeta: the delivered object carries the store's metadata property
HandleGunData ==
    \E hasMeta \in BOOLEAN, saveThrows \in BOOLEAN :
        LET acc == IF hasMeta \/ DOMAIN notifStore = {}
                   THEN Acc(paymentState)
                   ELSE handleGunDataLoop(Acc(paymentState), notifStore, 1, now,
                                          paymentCallbacks, saveThrows)
        IN  /\ paymentState' = acc.table
            /\ pendingSaves' = Cap(pendingSaves + acc.saves)
            /\ fx' = [kind |-> "ingest", ids |-> acc.ids, new |-> acc.new,
                      calls |-> acc.calls, called |-> acc.called, saves |-> acc.saves,
                      threw |-> saveThrows /\ acc.new # {},
                      info |-> IF hasMeta THEN "ignored" ELSE "listener"]
            /\ UNCHANGED hist
            /\ UNCHANGED <<now, paymentCallbacks, lastClearTimestamp, notifStore, syncPc,
                           clear, scan>>
            /\ UNCHANGED nonLedgerVars

\* mutant of InCooldown: the comparison is inverted
InCooldownInverted(nowT, lastClear) == nowT - lastClear > CooldownMs

\* the cooldown test of syncNotificationsWithState
InCooldown(nowT, lastClear) == nowT - lastClear < CooldownMs

\* mutant of ForceReset: the timestamp is left as it is
ForceResetNoop(force, lastClear) == lastClear

\* forceSyncNotifications: the timestamp after the optional reset
ForceReset(force, lastClear) == IF force THEN 0 ELSE lastClear

\* syncNotificationsWithState up to the once() read: skipped in the cooldown
SyncInvoke(kind, lastClear) ==
    /\ syncPc = "idle"
    /\ lastClearTimestamp' = lastClear
    /\ syncPc' = IF InCooldown(now, lastClear) THEN "idle" ELSE "reading"
    /\ fx' = [NoFx EXCEPT !.kind = kind,
                          !.info = IF InCooldown(now, lastClear) THEN "skipped" ELSE "reading"]
    /\ UNCHANGED <<now, paymentState, paymentCallbacks, notifStore, pendingSaves,
                   clear, scan>>
    /\ UNCHANGED nonLedgerVars

\* syncNotificationsWithState called directly
SyncNotificationsWithState ==
    /\ SyncInvoke("sync", lastClearTimestamp)
    /\ UNCHANGED hist

\* forceSyncNotifications(force)
ForceSyncNotifications ==
    \E force \in BOOLEAN :
        /\ SyncInvoke(IF force THEN "forceSync" ELSE "sync",
                      ForceReset(force, lastClearTimestamp))
        /\ hist' = [hist EXCEPT !.forced = @ \/ force]

\* the once() callback of syncNotificationsWithState
SyncOnce ==
    \E saveThrows \in BOOLEAN :
        LET acc == IF DOMAIN notifStore = {}
                   THEN Acc(paymentState)
                   ELSE syncLoop(Acc(paymentState), notifStore, 1, now,
                                 paymentCallbacks, saveThrows)
            recoveredCount == Cardinality(acc.new)
            saves == acc.saves + (IF recoveredCount > 0 /\ ~saveThrows THEN 1 ELSE 0)
        IN  /\ syncPc = "reading"
            /\ syncPc' = "idle"
            /\ paymentState' = acc.table
            /\ pendingSaves' = Cap(pendingSaves + saves)
            /\ fx' = [kind |-> "ingest", ids |-> acc.ids, new |-> acc.new,
                      calls |-> acc.calls, called |-> acc.called, saves |-> saves,
                      threw |-> saveThrows /\ acc.new # {}, info |-> "sync"]
            /\ UNCHANGED hist
            /\ UNCHANGED <<now, paymentCallbacks, lastClearTimestamp, notifStore,
                           clear, scan>>
            /\ UNCHANGED nonLedgerVars

\* savePaymentState's put is acknowledged (with or without an error) or its
\* timer fires: the callbacks log and resolve
SaveSettle ==
    \E outcome \in {"ack", "ack_err", "timeout"} :
        /\ pendingSaves > 0
        /\ pendingSaves' = pendingSaves - 1
        /\ fx' = [NoFx EXCEPT !.kind = "saveSettled", !.info = outcome]
        /\ UNCHANGED <<now, paymentState, paymentCallbacks, lastClearTimestamp,
                       notifStore, syncPc, clear, scan, hist>>
        /\ UNCHANGED nonLedgerVars

TxHashes == {"0xT"}
StatusInputs == {"claimed"}

\* updatePaymentStatus
\* { ...payment, status, txHash }: the record with the two fields set
UpdatedPayment(payment, status, txHash) ==
    [k \in DOMAIN payment \cup {"status", "txHash"} |->
        IF k = "status" THEN status
        ELSE IF k = "txHash" THEN txHash
        ELSE payment[k]]

\* the value of the parameter txHash of a call that passes none
UndefinedTxHash == "undefined"

\* updatePaymentStatus(stealthAddress, timestamp, status, txHash?), the hash
\* being optional; the step records the call
UpdatePaymentStatusOptional ==
    \E id \in DOMAIN paymentState \cup {<<"pay", 1>>},
       status \in {"claimed", "withdrawn"},
       txHash \in TxHashes \cup {UndefinedTxHash}, saveThrows \in BOOLEAN :
        LET call == [id |-> id, status |-> status, txHash |-> txHash]
        IN  /\ IF id \in DOMAIN paymentState
               THEN /\ paymentState' =
                         [paymentState EXCEPT
                            ![id] = UpdatedPayment(paymentState[id], status, txHash)]
                    /\ pendingSaves' = Cap(pendingSaves + (IF saveThrows THEN 0 ELSE 1))
                    /\ fx' = [NoFx EXCEPT !.kind = "update",
                                          !.saves = IF saveThrows THEN 0 ELSE 1,
                                          !.threw = saveThrows,
                                          !.info = call]
               ELSE /\ UNCHANGED <<paymentState, pendingSaves>>
                    /\ fx' = [NoFx EXCEPT !.kind = "update", !.info = call]
            /\ UNCHANGED <<now, paymentCallbacks, lastClearTimestamp, notifStore, syncPc,
                           clear, scan, hist>>
            /\ UNCHANGED nonLedgerVars

UpdatePaymentStatus ==
    \E id \in DOMAIN paymentState \cup {<<"pay", 1>>},
       status \in StatusInputs, txHash \in TxHashes, saveThrows \in BOOLEAN :
        /\ IF id \in DOMAIN paymentState
           THEN /\ paymentState' =
                     [paymentState EXCEPT
                        ![id] = UpdatedPayment(paymentState[id], status, txHash)]
                /\ pendingSaves' = Cap(pendingSaves + (IF saveThrows THEN 0 ELSE 1))
                /\ fx' = [NoFx EXCEPT !.kind = "update",
                                      !.saves = IF saveThrows THEN 0 ELSE 1,
                                      !.threw = saveThrows]
           ELSE /\ UNCHANGED <<paymentState, pendingSaves>>
                /\ fx' = [NoFx EXCEPT !.kind = "update", !.info = "not found"]
        /\ UNCHANGED <<now, paymentCallbacks, lastClearTimestamp, notifStore, syncPc,
                       clear, scan, hist>>
        /\ UNCHANGED nonLedgerVars

ClearTimeoutMs == 15000

\* leaving clearProcessedPayments after the await
ClearReturn(chain, issued) ==
    /\ lastClearTimestamp' = now
    /\ clear' = [clear EXCEPT !.call = "idle", !.chain = chain, !.issued = issued]
    /\ fx' = [NoFx EXCEPT !.kind = "clearReturn",
                          !.info = [count |-> clear.total, issued |-> issued]]
    /\ hist' = [hist EXCEPT !.clearDoneAt = now, !.forced = FALSE]

\* clearProcessedPayments up to the await: the table is emptied and the first
\* put(null) is issued; putThrows: the store call throws, the promise resolves
ClearProcessedPayments ==
    \E putThrows \in BOOLEAN :
        /\ clear.call = "idle"
        /\ paymentState' = EmptyTable
        /\ IF putThrows
           THEN /\ lastClearTimestamp' = now
                /\ clear' = [ClearIdle EXCEPT !.total = Cardinality(DOMAIN paymentState)]
                /\ fx' = [NoFx EXCEPT !.kind = "clearReturn", !.threw = TRUE,
                             !.info = [count |-> Cardinality(DOMAIN paymentState),
                                       issued |-> {}]]
                /\ hist' = [hist EXCEPT !.clearDoneAt = now, !.forced = FALSE]
           ELSE /\ clear' = [call |-> "awaiting",
                             total |-> Cardinality(DOMAIN paymentState),
                             startedAt |-> now, chain |-> "stealth_payment_state",
                             issued |-> {"stealth_payment_state"}]
                /\ fx' = [NoFx EXCEPT !.kind = "clearStart"]
                /\ UNCHANGED <<lastClearTimestamp, hist>>
        /\ UNCHANGED <<now, paymentCallbacks, notifStore, syncPc, pendingSaves, scan>>
        /\ UNCHANGED nonLedgerVars

\* the store acknowledges the outstanding put(null) of the chain (with or
\* without an error): the callback issues the next put, the last one resolves
ClearAck ==
    \E err \in BOOLEAN :
        /\ clear.chain # "none"
        /\ IF clear.chain = "stealth_payment_state"
           THEN /\ clear' = [clear EXCEPT !.chain = "stealth_payments",
                                          !.issued = @ \cup {"stealth_payments"}]
                /\ notifStore' = EmptyNode
                /\ fx' = [NoFx EXCEPT !.kind = "clearAck"]
                /\ UNCHANGED <<lastClearTimestamp, hist>>
           ELSE IF clear.chain = "stealth_payments"
           THEN /\ clear' = [clear EXCEPT !.chain = "stealth_payment_history",
                                          !.issued = @ \cup {"stealth_payment_history"}]
                /\ fx' = [NoFx EXCEPT !.kind = "clearAck"]
                /\ UNCHANGED <<lastClearTimestamp, notifStore, hist>>
           ELSE IF clear.call = "awaiting"
           THEN /\ ClearReturn("none", clear.issued)
                /\ UNCHANGED notifStore
           ELSE /\ clear' = [clear EXCEPT !.chain = "none"]
                /\ fx' = [NoFx EXCEPT !.kind = "clearAck"]
                /\ UNCHANGED <<lastClearTimestamp, notifStore, hist>>
        /\ UNCHANGED <<now, paymentState, paymentCallbacks, syncPc, pendingSaves, scan>>
        /\ UNCHANGED nonLedgerVars

\* the 15 s timer of clearPaymentDataFromGunDB fires before the last ack
ClearTimeout ==
    /\ clear.call = "awaiting"
    /\ now >= clear.startedAt + ClearTimeoutMs
    /\ ClearReturn(clear.chain, clear.issued)
    /\ UNCHANGED <<now, paymentState, paymentCallbacks, notifStore, syncPc,
                   pendingSaves, scan>>
    /\ UNCHANGED nonLedgerVars

BlockTime == 60          \* block.timestamp of the announcement's block, in seconds

\* the Announcement events of the custody contract in the scanned range
ChainLog == << [receiver |-> "0xA", amount |-> "5", token |-> "0xToken",
                pkx |-> "0xX", transactionHash |-> "0xH",
                blockTimestamp |-> BlockTime, timestamp |-> 0] >>

\* the notification scanOnChainPayments builds from an event
EventNotification(event) ==
    [stealthAddress |-> event.receiver,
     amount |-> event.amount,
     ephemeralPublicKey |-> event.pkx,
     sender |-> event.transactionHash,
     message |-> "",
     timestamp |-> event.timestamp * 1000,
     token |-> event.token]

\* the entry savePaymentNotificationToGunDB writes
NotificationItem(n) ==
    [amount |-> n.amount, ephemeralPublicKey |-> n.ephemeralPublicKey,
     sender |-> n.sender, message |-> n.message, timestamp |-> n.timestamp,
     token |-> n.token, meta |-> FALSE]

\* scanOnChainPayments up to the event loop; outcome: what the chain queries
\* return (events in the range, none, or an error)
ScanOnChainPayments ==
    \E outcome \in {"events", "none", "throws"} :
        /\ scan.pc = "idle"
        /\ scan' = IF outcome = "events"
                   THEN [ScanIdle EXCEPT !.pc = "loop", !.queue = ChainLog]
                   ELSE IF outcome = "none"
                   THEN [ScanIdle EXCEPT !.pc = "final"]
                   ELSE ScanIdle
        /\ fx' = [NoFx EXCEPT !.kind = IF outcome = "throws" THEN "scanReturn"
                                       ELSE "scanStart",
                              !.info = outcome]
        /\ UNCHANGED <<now, paymentState, paymentCallbacks, lastClearTimestamp,
                       notifStore, syncPc, pendingSaves, clear, hist>>
        /\ UNCHANGED nonLedgerVars

\* block?.timestamp || Date.now()
EventTime(event, block, nowT) ==
    IF block = "found" /\ event.blockTimestamp # 0 THEN event.blockTimestamp ELSE nowT

\* what provider.getBlock gives: the block, null, or an error
BlockOutcomes == {"found", "null", "throws"}

\* one event of the loop, from getBlock to the put of its notification, for
\* the given outcomes of getBlock; when getBlock raises the event is skipped
ScanEventOn(blocks) ==
    \E block \in blocks, saveThrows \in BOOLEAN :
        LET blockThrows == block = "throws"
            event == Head(scan.queue)
            paymentNotification ==
                EventNotification([event EXCEPT !.timestamp = EventTime(event, block, now)])
            paymentId == getPaymentId(paymentNotification)
            isNew == ~blockThrows /\ paymentId \notin DOMAIN paymentState
            acc == IF isNew
                   THEN addPaymentToState(Acc(paymentState), paymentNotification,
                                          paymentCallbacks, saveThrows)
                   ELSE Acc(paymentState)
        IN  /\ scan.pc = "loop"
            /\ scan.queue # <<>>
            /\ paymentState' = acc.table
            /\ pendingSaves' = Cap(pendingSaves + acc.saves)
            /\ IF isNew
               THEN /\ scan' = [scan EXCEPT !.pc = "savingNotification",
                                            !.foundPayments = @ + 1]
                    /\ notifStore' =
                         [k \in DOMAIN notifStore \cup {event.receiver} |->
                            IF k = event.receiver
                            THEN NotificationItem(paymentNotification)
                            ELSE notifStore[k]]
               ELSE /\ scan' = [scan EXCEPT
                                  !.queue = Tail(@),
                                  !.pc = IF Tail(scan.queue) = <<>> THEN "final" ELSE "loop"]
                    /\ UNCHANGED notifStore
            /\ fx' = [kind |-> IF blockThrows THEN "scanSkip" ELSE "ingest",
                      ids |-> IF blockThrows THEN {} ELSE {paymentId},
                      new |-> acc.new, calls |-> acc.calls, called |-> acc.called,
                      saves |-> acc.saves,
                      threw |-> saveThrows /\ acc.new # {}, info |-> "scan"]
            /\ hist' = IF isNew
                       THEN [hist EXCEPT !.scanned = @ \cup {event.transactionHash}]
                       ELSE hist
            /\ UNCHANGED <<now, paymentCallbacks, lastClearTimestamp, syncPc, clear>>
            /\ UNCHANGED nonLedgerVars

\* the step of the loop against a provider that has every block of the range
ScanEventBlockKnown == ScanEventOn(BlockOutcomes \ {"null"})

\* the step of the loop against any provider
ScanEvent == ScanEventOn(BlockOutcomes)

\* the put of savePaymentNotificationToGunDB is acknowledged
ScanNotificationAck ==
    \E err \in BOOLEAN :
        /\ scan.pc = "savingNotification"
        /\ scan' = [scan EXCEPT !.savedPayments = @ + 1,
                                !.queue = Tail(@),
                                !.pc = IF Tail(scan.queue) = <<>> THEN "final" ELSE "loop"]
        /\ fx' = [NoFx EXCEPT !.kind = "scanAck"]
        /\ UNCHANGED <<now, paymentState, paymentCallbacks, lastClearTimestamp,
                       notifStore, syncPc, pendingSaves, clear, hist>>
        /\ UNCHANGED nonLedgerVars

\* after the loop: one snapshot save if anything was saved, and the result
\* (the error result when that save raises)
ScanFinish ==
    \E saveThrows \in BOOLEAN :
        LET saves == IF scan.savedPayments > 0 /\ ~saveThrows THEN 1 ELSE 0
        IN  /\ scan.pc = "final"
            /\ scan' = ScanIdle
            /\ pendingSaves' = Cap(pendingSaves + saves)
            /\ fx' = [NoFx EXCEPT !.kind = "scanReturn", !.saves = saves,
                                  !.threw = saveThrows,
                                  !.info = IF scan.savedPayments > 0 /\ saveThrows
                                           THEN [foundPayments |-> 0, savedPayments |-> 0]
                                           ELSE [foundPayments |-> scan.foundPayments,
                                                 savedPayments |-> scan.savedPayments]]
            /\ UNCHANGED <<now, paymentState, paymentCallbacks, lastClearTimestamp,
                           notifStore, syncPc, clear, hist>>
            /\ UNCHANGED nonLedgerVars


(***************************************************************************)
(* withdrawStealthPayment.  Amounts are in gwei, as in the retry loop      *)
(* above: the ladder of fixed amounts, then the computed maximum.          *)
(***************************************************************************)
smallAmounts == <<1000000, 500000, 100000, 50000, 10000, 5000, 1000>>

LadderBalances == {0, 1000, 5500, 700000, 2000000}
Tokens == {ETH_TOKEN_PLACEHOLDER, "0xToken"}

LadderFailedError == Err(<<"Insufficient", "balance", "in", "stealth", "address">>)
ForwarderNotInitializedError == Err(<<"PaymentForwarder", "contract", "not", "initialized">>)

\* mutant of RungApplies: an amount equal to the balance is tried as well
RungAppliesInclusive(smallAmount, balance) == smallAmount <= balance

\* the test of the ladder loop
RungApplies(smallAmount, balance) == smallAmount < balance

\* the transaction request of an attempt, with what became of it
LadderTx(value, outcome) ==
    [value |-> value, gasLimit |-> ladder.estimatedGasLimit,
     gasPrice |-> ladder.gasPrice, outcome |-> outcome]

TxOutcomes == {"ok", "sendFails", "waitFails"}

\* withdrawStealthPayment up to the ladder: keys, ephemeral key, open, balance,
\* fee data, gas estimate; for another token the forwarder's withdrawToken
WithdrawStealthPayment ==
    \E token \in Tokens,
       prelude \in {Ok, KeysNotFoundError, PaymentNotFoundError, OpenFailedError,
                    NetworkError, ForwarderNotInitializedError},
       balance \in LadderBalances, gasPriceIn \in GasPrices, estimate \in GasEstimates :
        /\ ladder.pc \in {"idle", "done"}
        /\ (prelude = ForwarderNotInitializedError) => (token # ETH_TOKEN_PLACEHOLDER)
        /\ (prelude \in {KeysNotFoundError, PaymentNotFoundError, OpenFailedError}) =>
              (token = ETH_TOKEN_PLACEHOLDER)
        /\ ladder' =
             IF prelude # Ok
             THEN [LadderIdle EXCEPT !.pc = "done",
                                     !.result = [ok |-> FALSE, error |-> prelude]]
             ELSE IF token # ETH_TOKEN_PLACEHOLDER
             THEN [LadderIdle EXCEPT !.pc = "done",
                                     !.result = [ok |-> TRUE, tx |-> [token |-> token]]]
             ELSE IF balance = 0
             THEN [LadderIdle EXCEPT !.pc = "done",
                                     !.result = [ok |-> FALSE, error |-> NoBalanceError]]
             ELSE [LadderIdle EXCEPT
                     !.pc = "ladder", !.balance = balance,
                     !.gasPrice = IF gasPriceIn = 0 THEN DefaultGasPrice ELSE gasPriceIn,
                     !.estimatedGasLimit = IF estimate = 0 THEN DefaultGasLimit
                                           ELSE estimate]
        /\ UNCHANGED wd
        /\ UNCHANGED nonWdVars

\* one iteration of the loop over smallAmounts
LadderStep ==
    \E outcome \in TxOutcomes :
        LET smallAmount == smallAmounts[ladder.i]
            tx == LadderTx(smallAmount, outcome)
            onward == [ladder EXCEPT
                         !.i = @ + 1,
                         !.pc = IF ladder.i = Len(smallAmounts) THEN "max" ELSE "ladder"]
        IN  /\ ladder.pc = "ladder"
            /\ ladder' =
                 IF ~RungApplies(smallAmount, ladder.balance) THEN onward
                 ELSE IF outcome = "ok"
                 THEN [ladder EXCEPT !.pc = "done", !.attempts = Append(@, tx),
                                     !.result = [ok |-> TRUE, tx |-> tx]]
                 ELSE [onward EXCEPT !.attempts = Append(@, tx)]
            /\ UNCHANGED wd
            /\ UNCHANGED nonWdVars

\* mutant of MaxApplies: the computed maximum is sent whatever its sign
MaxAppliesAlways(maxTransferAmount) == TRUE

\* the test before the attempt with the computed maximum
MaxApplies(maxTransferAmount) == maxTransferAmount > 0

\* after the ladder: the computed maximum, or the final error
MaxAttempt ==
    \E outcome \in TxOutcomes :
        LET baseGasFee == ladder.estimatedGasLimit * ladder.gasPrice
            maxTransferAmount == ladder.balance - baseGasFee
            tx == LadderTx(maxTransferAmount, outcome)
        IN  /\ ladder.pc = "max"
            /\ ladder' =
                 IF MaxApplies(maxTransferAmount) /\ outcome = "ok"
                 THEN [ladder EXCEPT !.pc = "done", !.attempts = Append(@, tx),
                                     !.result = [ok |-> TRUE, tx |-> tx]]
                 ELSE [ladder EXCEPT
                         !.pc = "done",
                         !.attempts = IF MaxApplies(maxTransferAmount) THEN Append(@, tx) ELSE @,
                         !.result = [ok |-> FALSE, error |-> LadderFailedError]]
            /\ UNCHANGED wd
            /\ UNCHANGED nonWdVars


(***************************************************************************)
(* The persisted snapshot and loadPaymentState.  The snapshot node is      *)
(* outside the owner's user space: what a read of it returns is whatever   *)
(* this session, an earlier one or a peer has written there.               *)
(***************************************************************************)
\* an element of a snapshot in array form; amount "": the element has none
SnapshotPayment(amount, status) ==
    [stealthAddress |-> "0xA", amount |-> amount, ephemeralPublicKey |-> "0xE",
     sender |-> "S", message |-> "", timestamp |-> ItemTime,
     token |-> ETH_TOKEN_PLACEHOLDER, status |-> status]

\* what once() can return for the snapshot node
Snapshots ==
    { NoData,
      [form |-> "array", meta |-> FALSE, items |-> <<SnapshotPayment("1", "pending")>>],
      [form |-> "array", meta |-> FALSE, items |-> <<SnapshotPayment("", "refunded")>>],
      [form |-> "object", meta |-> FALSE, entries |-> [k \in {"0xA"} |-> Item("1", ItemTime)]],
      [form |-> "object", meta |-> FALSE, entries |-> [k \in {"pay"} |-> Item("2", 0)]],
      [form |-> "object", meta |-> TRUE, entries |-> [k \in {"0xA"} |-> Item("1", ItemTime)]] }

\* the array branch of loadPaymentState, from element i
RECURSIVE loadArray(_, _, _)
loadArray(table, items, i) ==
    IF i > Len(items) THEN table
    ELSE LET payment == items[i]
             paymentId == getPaymentId(payment)
             next == IF payment.stealthAddress # ""
                     THEN [id \in DOMAIN table \cup {paymentId} |->
                             IF id = paymentId THEN payment ELSE table[id]]
                     ELSE table
         IN  loadArray(next, items, i + 1)

\* the filter of the object branch of loadPaymentState
LoadAcceptsEntry(key, item) ==
    /\ ~(KeyIsNumeric(key) /\ ~KeyStartsWith0x(key))
    /\ ~KeyIsSpecial(key)
    /\ KeyStartsWith0x(key)
    /\ ItemIsPayment(item)

\* the object branch of loadPaymentState, from key i
RECURSIVE loadObject(_, _, _, _)
loadObject(table, entries, i, nowT) ==
    IF i > Len(KeyOrder) THEN table
    ELSE LET key == KeyOrder[i]
             next ==
                IF key \in DOMAIN entries /\ LoadAcceptsEntry(key, entries[key])
                THEN LET payment == Notification(key, entries[key], nowT)
                         paymentId == getPaymentId(payment)
                     IN  [id \in DOMAIN table \cup {paymentId} |->
                            IF id = paymentId THEN payment ELSE table[id]]
                ELSE table
         IN  loadObject(next, entries, i + 1, nowT)

\* the once() callback of loadPaymentState applied to the table
loadPaymentState(table, data, nowT) ==
    IF data.form = "none" THEN table
    ELSE IF data.meta THEN table
    ELSE IF data.form = "array" THEN loadArray(table, data.items, 1)
    ELSE loadObject(table, data.entries, 1, nowT)

\* this session, an earlier one or a peer writes the snapshot node
SnapshotPut ==
    \E data \in Snapshots :
        /\ data # snapshot
        /\ snapshot' = data
        /\ fx' = NoFx
        /\ UNCHANGED <<now, paymentState, paymentCallbacks, lastClearTimestamp, notifStore,
                       syncPc, pendingSaves, clear, scan, hist, load>>
        /\ UNCHANGED <<stealthVars, wdVars, keyVars, auxVars>>

\* the callers of loadPaymentState up to its once() read:
\* restartPaymentListener always reloads, onStealthPayment (which registers
\* its observer first) and getAllPayments reload when the table is empty
LoadInvokeWith(maxObservers) ==
    \E caller \in {"restartPaymentListener", "onStealthPayment", "getAllPayments"} :
        /\ load = "idle"
        /\ (caller = "onStealthPayment") => paymentCallbacks < maxObservers
        /\ paymentCallbacks' = IF caller = "onStealthPayment" THEN paymentCallbacks + 1
                               ELSE paymentCallbacks
        /\ load' = IF caller = "restartPaymentListener" \/ DOMAIN paymentState = {}
                   THEN "reading" ELSE "idle"
        /\ fx' = [NoFx EXCEPT !.kind = "loadInvoke", !.info = caller]
        /\ UNCHANGED <<now, paymentState, lastClearTimestamp, notifStore, syncPc,
                       pendingSaves, clear, scan, hist, snapshot>>
        /\ UNCHANGED <<stealthVars, wdVars, keyVars, auxVars>>

LoadInvoke == LoadInvokeWith(MaxObservers)

\* the same callers, with room for MaxCallbacks observers
MaxCallbacks == 2

LoadInvokeObservers == LoadInvokeWith(MaxCallbacks)

\* the once() callback of loadPaymentState, before or after its timer
LoadOnce ==
    /\ load \in {"reading", "timedOut"}
    /\ load' = "idle"
    /\ paymentState' = loadPaymentState(paymentState, snapshot, now)
    /\ fx' = [NoFx EXCEPT !.kind = "load"]
    /\ UNCHANGED <<now, paymentCallbacks, lastClearTimestamp, notifStore, syncPc,
                   pendingSaves, clear, scan, hist, snapshot>>
    /\ UNCHANGED <<stealthVars, wdVars, keyVars, auxVars>>

\* the 10 s timer of loadPaymentState fires before the read returns: the
\* promise resolves, the read stays outstanding
LoadTimeout ==
    /\ load = "reading"
    /\ load' = "timedOut"
    /\ fx' = [NoFx EXCEPT !.kind = "loadTimeout"]
    /\ UNCHANGED <<now, paymentState, paymentCallbacks, lastClearTimestamp, notifStore,
                   syncPc, pendingSaves, clear, scan, hist, snapshot>>
    /\ UNCHANGED <<stealthVars, wdVars, keyVars, auxVars>>

\* forceRemovePayment
ForceRemovePayment ==
    \E paymentId \in DOMAIN paymentState \cup {<<"pay", 1>>}, saveThrows \in BOOLEAN :
        LET wasRemoved == paymentId \in DOMAIN paymentState
            saves == IF wasRemoved /\ ~saveThrows THEN 1 ELSE 0
        IN  /\ paymentState' = [id \in DOMAIN paymentState \ {paymentId} |-> paymentState[id]]
            /\ pendingSaves' = Cap(pendingSaves + saves)
            /\ fx' = [NoFx EXCEPT !.kind = "forceRemove", !.saves = saves,
                                  !.threw = wasRemoved /\ saveThrows,
                                  !.info = [removed |-> IF wasRemoved THEN 1 ELSE 0]]
            /\ UNCHANGED <<now, paymentCallbacks, lastClearTimestamp, notifStore, syncPc,
                           clear, scan, hist>>
            /\ UNCHANGED nonLedgerVars

\* forceRemovePaymentsByAddress
ForceRemovePaymentsByAddress ==
    \E stealthAddress \in StoreKeys, saveThrows \in BOOLEAN :
        LET paymentsToRemove == { id \in DOMAIN paymentState :
                                    paymentState[id].stealthAddress = stealthAddress }
            removedCount == Cardinality(paymentsToRemove)
            saves == IF removedCount > 0 /\ ~saveThrows THEN 1 ELSE 0
        IN  /\ paymentState' = [id \in DOMAIN paymentState \ paymentsToRemove |->
                                  paymentState[id]]
            /\ pendingSaves' = Cap(pendingSaves + saves)
            /\ fx' = [NoFx EXCEPT !.kind = "forceRemove", !.saves = saves,
                                  !.threw = removedCount > 0 /\ saveThrows,
                                  !.info = [removed |-> removedCount]]
            /\ UNCHANGED <<now, paymentCallbacks, lastClearTimestamp, notifStore, syncPc,
                           clear, scan, hist>>
            /\ UNCHANGED nonLedgerVars

\* what the owner's node can hold beyond StoreEntries: a purely numeric key,
\* a key of the store's own, a value carrying the metadata marker
WiderEntries ==
    StoreEntries \cup
    { <<"123", Item("1", ItemTime)>>, <<"_", Item("1", ItemTime)>>,
      <<"0xA", [Item("1", ItemTime) EXCEPT !.meta = TRUE]>> }

\* a sender, a peer or the store writes an entry of the owner's node
RemotePutAny ==
    \E e \in WiderEntries :
        /\ IF e[1] \in DOMAIN notifStore THEN notifStore[e[1]] # e[2] ELSE TRUE
        /\ notifStore' = [k \in DOMAIN notifStore \cup {e[1]} |->
                            IF k = e[1] THEN e[2] ELSE notifStore[k]]
        /\ fx' = NoFx
        /\ UNCHANGED <<now, paymentState, paymentCallbacks, lastClearTimestamp,
                       syncPc, pendingSaves, clear, scan, hist>>
        /\ UNCHANGED nonLedgerVars

(***************************************************************************)
(* calculateFees.  Amounts in gwei; an amount argument is a string, either *)
(* of an integer or not.                                                   *)
(***************************************************************************)
IntegerString(n) == [integer |-> TRUE, value |-> n]
NotAnInteger == [integer |-> FALSE]      \* "0.5", "abc"

FeeAmounts == {IntegerString(0), IntegerString(7), NotAnInteger}
Tolls == {0, 3}
PluginStates == {"ready", "notInitialized", "noForwarder", "noProvider"}
Reads == {"ok", "throws"}

FeeError(cause) == [ok |-> FALSE, error |-> cause]

\* mutant of TotalCost: the toll is left out
TotalCostNoToll(amount, toll, totalGasCost) == amount + totalGasCost

\* BigInt(amount) + toll + totalGasCost
TotalCost(amount, toll, totalGasCost) == amount + toll + totalGasCost

\* calculateFees(token, amount); plugin: what the guards find; tollRead,
\* feeRead: whether toll() and getFeeData() return; gasPriceIn: the gas price
\* of the fee data (0: null); estimate: the gas estimate (0: the call raises)
calculateFees(token, amount, plugin, tollRead, toll, feeRead, gasPriceIn, estimate) ==
    IF plugin # "ready" THEN FeeError(plugin)
    ELSE IF tollRead = "throws" THEN FeeError("toll")
    ELSE IF feeRead = "throws" THEN FeeError("feeData")
    ELSE LET gasPrice == IF gasPriceIn = 0 THEN DefaultGasPrice ELSE gasPriceIn
             estimatedGas == IF estimate = 0 THEN DefaultGasLimit ELSE estimate
             totalGasCost == estimatedGas * gasPrice
         IN  IF ~amount.integer THEN FeeError("amount")
             ELSE [ok |-> TRUE, toll |-> toll, estimatedGas |-> estimatedGas,
                   totalCost |-> TotalCost(amount.value, toll, totalGasCost),
                   breakdown |-> [baseAmount |-> amount, toll |-> toll,
                                  gasEstimate |-> estimatedGas, gasPrice |-> gasPrice,
                                  totalGasCost |-> totalGasCost]]

CalculateFees ==
    \E token \in Tokens, amount \in FeeAmounts, plugin \in PluginStates,
       tollRead \in Reads, toll \in Tolls, feeRead \in Reads,
       gasPriceIn \in GasPrices, estimate \in GasEstimates :
        /\ UNCHANGED <<throwing, uk, send, wpre, ann>>
        /\ fees' = [token |-> token, amount |-> amount, plugin |-> plugin,
                    tollRead |-> tollRead, toll |-> toll, feeRead |-> feeRead,
                    gasPriceIn |-> gasPriceIn, estimate |-> estimate,
                    result |-> calculateFees(token, amount, plugin, tollRead, toll,
                                             feeRead, gasPriceIn, estimate)]
        /\ UNCHANGED nonAuxVars


(***************************************************************************)
(* The user's stealth keys.  getUserStealthKeys and                        *)
(* getUserStealthKeysWithSEA read the keys from the user's space of the    *)
(* replicated store, then from the on-chain registry, and otherwise derive *)
(* them and save them without waiting: saveKeysToGun issues one put for    *)
(* the private keys and one for the public keys, and each put reaches the  *)
(* store in a later step.                                                  *)
(***************************************************************************)
MaxKeyCalls == 3

\* signer.signMessage("I Love Shogun!"): r, s and v as hex digits
WalletSignature == Str(<<"0", "x", "a", "b", "c", "d", "1", "b">>)

\* gun.user._.sea.priv: the private key of the SEA pair, not a hex string
SeaPriv == Str(<<"h", "i">>)

\* privateKey: "" of the keys read from the registry
NoPrivateKey == [scheme |-> "empty", of |-> <<>>]

\* the public keys the registry returns for a wallet that registered keys
RegisteredKeys ==
    [viewingKey |-> [fmt |-> "uncompressed",
                     of |-> [scheme |-> "registered", of |-> Str(<<"viewing">>)]],
     spendingKey |-> [fmt |-> "uncompressed",
                      of |-> [scheme |-> "registered", of |-> Str(<<"spending">>)]]]

\* getKeysFromGun, for a signed-in user: null unless both nodes hold data
getKeysFromGun(gun) ==
    IF gun.private = None THEN None
    ELSE IF gun.public = None THEN None
    ELSE [viewingKey |-> [privateKey |-> gun.private.viewingKey,
                          publicKey |-> gun.public.viewingKey],
          spendingKey |-> [privateKey |-> gun.private.spendingKey,
                           publicKey |-> gun.public.spendingKey]]

\* saveKeysToGun, for a signed-in user: the two puts it issues
saveKeysToGun(newKeys) ==
    << [space |-> "private",
        data |-> [viewingKey |-> newKeys.viewingKey.privateKey,
                  spendingKey |-> newKeys.spendingKey.privateKey]],
       [space |-> "public",
        data |-> [viewingKey |-> newKeys.viewingKey.publicKey,
                  spendingKey |-> newKeys.spendingKey.publicKey]] >>

\* syncKeysFromOnChain: the keys read from the registry, null without a
\* signer, when the read throws or when no viewing key is registered
syncKeysFromOnChain(signer, chain, chainRead) ==
    IF ~signer THEN None
    ELSE IF chainRead = "throws" THEN None
    ELSE IF chain = None THEN None
    ELSE [viewingKey |-> [privateKey |-> NoPrivateKey, publicKey |-> chain.viewingKey],
          spendingKey |-> [privateKey |-> NoPrivateKey, publicKey |-> chain.spendingKey]]

\* the seed of createUserStealthKeys: the wallet's signature, undefined
\* without a signer or when signMessage throws
createUserStealthKeysSeed(signer, signs) ==
    IF signer /\ signs THEN WalletSignature ELSE <<>>

\* the seed of createUserStealthKeysWithSEA: the SEA private key, and the
\* seed of createUserStealthKeys when getSEASignature returns none
createUserStealthKeysWithSEASeed(sea, signer, signs) ==
    IF sea # <<>> THEN sea ELSE createUserStealthKeysSeed(signer, signs)

\* getUserStealthKeys (withSEA false) and getUserStealthKeysWithSEA: where
\* the keys come from, the keys, and the puts issued
resolveUserStealthKeys(u, withSEA, signs, chainRead, kitRaises) ==
    LET gunKeys == getKeysFromGun(u.gun)
        onChainKeys == syncKeysFromOnChain(u.signer, u.chain, chainRead)
        seed == IF withSEA
                THEN createUserStealthKeysWithSEASeed(u.sea, u.signer, signs)
                ELSE createUserStealthKeysSeed(u.signer, signs)
        newKeys == getStealthKeys(seed, kitRaises)
    IN  IF ~u.userIs
        THEN [source |-> "error", keys |-> None, puts |-> <<>>]
        ELSE IF gunKeys # None
        THEN [source |-> "gun", keys |-> gunKeys, puts |-> <<>>]
        ELSE IF onChainKeys # None
        THEN [source |-> "chain", keys |-> onChainKeys,
              puts |-> saveKeysToGun(onChainKeys)]
        ELSE [source |-> "generated", keys |-> newKeys, puts |-> saveKeysToGun(newKeys)]

UserKeysCall(op, withSEA) ==
    \E signs \in BOOLEAN, chainRead \in Reads, kitRaises \in BOOLEAN :
        LET seed == IF withSEA
                    THEN createUserStealthKeysWithSEASeed(uk.sea, uk.signer, signs)
                    ELSE createUserStealthKeysSeed(uk.signer, signs)
            r == resolveUserStealthKeys(uk, withSEA, signs, chainRead, kitRaises)
        IN  /\ Len(uk.log) < MaxKeyCalls
            /\ KitOutcome(kd.lib, seed, kitRaises)
            /\ uk' = [uk EXCEPT
                        !.pending = @ \o r.puts,
                        !.log = Append(@,
                            [op |-> op, signs |-> signs, chainRead |-> chainRead,
                             stored |-> getKeysFromGun(uk.gun),
                             registered |-> syncKeysFromOnChain(uk.signer, uk.chain,
                                                                chainRead),
                             source |-> r.source, keys |-> r.keys])]
            /\ UNCHANGED <<fees, throwing, send, wpre, ann>>
            /\ UNCHANGED nonAuxVars

\* getUserStealthKeys()
GetUserStealthKeys == UserKeysCall("getUserStealthKeys", FALSE)

\* getUserStealthKeysWithSEA()
GetUserStealthKeysWithSEA == UserKeysCall("getUserStealthKeysWithSEA", TRUE)

\* the oldest put of saveKeysToGun reaches the user's node
KeysPutLands ==
    /\ uk.pending # <<>>
    /\ uk' = [uk EXCEPT !.gun = [@ EXCEPT ![Head(uk.pending).space] = Head(uk.pending).data],
                        !.pending = Tail(@)]
    /\ UNCHANGED <<fees, throwing, send, wpre, ann>>
    /\ UNCHANGED nonAuxVars


(***************************************************************************)
(* How a withdrawal of the native asset gets its ephemeral public key and  *)
(* the user's keys, before it opens the stealth address.                   *)
(***************************************************************************)
WithdrawMethods == {"withdrawStealthPayment", "withdrawStealthPaymentEnhanced"}

\* getPayment(stealthAddress, timestamp): the record under the id made of
\* the two, or null
getPayment(table, stealthAddress, timestamp) ==
    IF <<stealthAddress, timestamp>> \in DOMAIN table
    THEN table[<<stealthAddress, timestamp>>]
    ELSE None

\* the records of the table for a stealth address
RecordsFor(table, stealthAddress) ==
    { table[id] : id \in { x \in DOMAIN table : x[1] = stealthAddress } }

\* ephemeralKey: the argument, or the key of getPayment(stealthAddress, Date.now())
WithdrawalEphemeralKey(table, stealthAddress, ephemeralPublicKey, nowT) ==
    LET payment == getPayment(table, stealthAddress, nowT)
    IN  IF ephemeralPublicKey # ""
        THEN [ok |-> TRUE, ephemeralKey |-> ephemeralPublicKey]
        ELSE IF payment = None
        THEN [ok |-> FALSE, error |-> PaymentNotFoundError]
        ELSE [ok |-> TRUE, ephemeralKey |-> payment.ephemeralPublicKey]

\* the call up to openStealthAddress: withdrawStealthPaymentEnhanced looks
\* at the user's keys first, withdrawStealthPayment at the ephemeral key
WithdrawalPrelude(method, table, stealthAddress, ephemeralPublicKey, hasKeys, nowT) ==
    LET eph == WithdrawalEphemeralKey(table, stealthAddress, ephemeralPublicKey, nowT)
        noKeys == [ok |-> FALSE, error |-> KeysNotFoundError]
    IN  IF method = "withdrawStealthPaymentEnhanced"
        THEN IF ~hasKeys THEN noKeys ELSE eph
        ELSE IF ~eph.ok THEN eph ELSE IF ~hasKeys THEN noKeys ELSE eph

\* withdrawStealthPayment(stealthAddress, acceptor, ETH, ephemeralPublicKey?)
\* and withdrawStealthPaymentEnhanced(stealthAddress, acceptor,
\* ephemeralPublicKey?), up to openStealthAddress
WithdrawPrelude ==
    \E method \in WithdrawMethods, stealthAddress \in StoreKeys,
       ephemeralPublicKey \in {"", "0xF"}, hasKeys \in BOOLEAN :
        /\ wpre' = [method |-> method, stealthAddress |-> stealthAddress,
                       ephemeralPublicKey |-> ephemeralPublicKey, hasKeys |-> hasKeys,
                       at |-> now,
                       records |-> RecordsFor(paymentState, stealthAddress),
                       result |-> WithdrawalPrelude(method, paymentState, stealthAddress,
                                                    ephemeralPublicKey, hasKeys, now)]
        /\ UNCHANGED <<fees, throwing, uk, send, ann>>
        /\ UNCHANGED nonAuxVars


(***************************************************************************)
(* sendStealthPayment: the guards, the reads of the forwarder, the check   *)
(* of the signer's balance, the transaction and the notification.          *)
(***************************************************************************)
SendPluginStates == {"ready", "notInitialized", "noProvider", "noSigner", "noForwarder"}
SendBalances == {0, 5, 20}
SendTxOutcomes == {"sent", "rejected"}

\* what the call did: the sendEth or sendToken calls made on the forwarder,
\* whether the notification was written, whether the balance check warned
SendFailed(cause, submitted, warned) ==
    [ok |-> FALSE, error |-> cause, submitted |-> submitted, notified |-> FALSE,
     warned |-> warned, effects |-> IF submitted = 1 THEN <<"send">> ELSE <<>>]

SendWrites == {"ack", "ack_err"}

\* mutant of sendStealthNotification: an acknowledgement with an error rejects
sendStealthNotificationRejects(write) ==
    IF write = "ack_err" THEN "rejected" ELSE "resolved"

\* sendStealthNotification: the put's callback logs ack.err and resolves
sendStealthNotification(write) == "resolved"

\* the amount the signer needs: BigInt(amount) + toll for the native asset,
\* the toll for a token
RequiredAmount(token, amount, toll) ==
    IF token = ETH_TOKEN_PLACEHOLDER THEN amount.value + toll ELSE toll

\* the try block around the balance check: whether something was thrown in
\* it (the read of the balance, BigInt(amount), "Insufficient balance")
SignerBalanceCheckThrows(token, amount, toll, balanceRead, balance) ==
    \/ balanceRead = "throws"
    \/ token = ETH_TOKEN_PLACEHOLDER /\ ~amount.integer
    \/ amount.integer /\ balance < RequiredAmount(token, amount, toll)
    \/ token # ETH_TOKEN_PLACEHOLDER /\ ~amount.integer /\ balance < toll

\* sendStealthPayment(recipientGunPub, amount, token); what is thrown in
\* the balance check is caught there and logged as a warning
sendStealthPayment(token, amount, plugin, code, tollRead, toll, balanceRead, balance, recipientKeys, tx, userIs, write) ==
    LET warned == SignerBalanceCheckThrows(token, amount, toll, balanceRead, balance)
    IN  IF plugin # "ready" THEN SendFailed(plugin, 0, FALSE)
        ELSE IF ~code THEN SendFailed("noContract", 0, FALSE)
        ELSE IF tollRead = "throws" THEN SendFailed("toll", 0, FALSE)
        ELSE IF ~recipientKeys THEN SendFailed("recipientKeys", 0, warned)
        ELSE IF ~amount.integer THEN SendFailed("amount", 0, warned)
        ELSE IF tx = "rejected" THEN SendFailed("transaction", 1, warned)
        \* sender: this.core.gun.user().is.pub, read after the transaction
        ELSE IF ~userIs THEN SendFailed("sender", 1, warned)
        ELSE IF sendStealthNotification(write) = "rejected"
        THEN [ok |-> FALSE, error |-> "notification", submitted |-> 1,
              notified |-> TRUE, warned |-> warned, effects |-> <<"send", "put">>]
        ELSE [ok |-> TRUE, error |-> "", submitted |-> 1, notified |-> TRUE,
              warned |-> warned, effects |-> <<"send", "put">>]

SendStealthPayment ==
    \E token \in Tokens, amount \in FeeAmounts, plugin \in SendPluginStates,
       code \in BOOLEAN, tollRead \in Reads, toll \in Tolls, balanceRead \in Reads,
       balance \in SendBalances, recipientKeys \in BOOLEAN, tx \in SendTxOutcomes,
       userIs \in BOOLEAN, write \in SendWrites :
        /\ send = None      \* one call: it reads nothing an earlier call wrote
        /\ send' = [token |-> token, amount |-> amount, plugin |-> plugin,
                    code |-> code, tollRead |-> tollRead, toll |-> toll,
                    balanceRead |-> balanceRead, balance |-> balance,
                    recipientKeys |-> recipientKeys, tx |-> tx,
                    userIs |-> userIs, write |-> write,
                    result |-> sendStealthPayment(token, amount, plugin, code, tollRead,
                                                  toll, balanceRead, balance,
                                                  recipientKeys, tx, userIs, write)]
        /\ UNCHANGED <<fees, throwing, uk, wpre, ann>>
        /\ UNCHANGED nonAuxVars


(***************************************************************************)
(* The ephemeral key on its way through the chain.  A public key is the    *)
(* hex string of its bytes: a prefix byte, the x-coordinate and, when      *)
(* uncompressed, the y-coordinate; a coordinate is scaled down from 32     *)
(* bytes to XLen.  sendStealthPayment announces pkx, scanOnChainPayments   *)
(* stores the announced pkx as the record's ephemeral public key, and the  *)
(* recipient opens the stealth address with it.                            *)
(***************************************************************************)
XLen == 2

\* a coordinate as XLen bytes, big-endian
CoordinateBytes(n) == <<n \div 16, n % 16>>

\* the second coordinate of a point (the group of residues has none of its
\* own: a fixed function of the point stands for it)
PointY(pt) == (pt * pt) % FieldPrime

\* the bytes of a public key after "0x": 04 x y uncompressed, 02 or 03 and x
\* compressed
PublicKeyBytes(publicKey) ==
    IF publicKey.fmt = "uncompressed"
    THEN <<4>> \o CoordinateBytes(publicKey.pt) \o CoordinateBytes(PointY(publicKey.pt))
    ELSE <<2 + (PointY(publicKey.pt) % 2)>> \o CoordinateBytes(publicKey.pt)

\* the x-coordinate of a public key
XCoordinate(publicKey) == CoordinateBytes(publicKey.pt)

\* rawPkx = ephemeralPublicKey.slice(2, 66): the first 32 bytes after "0x"
Pkx(ephemeralPublicKey) == SubSeq(PublicKeyBytes(ephemeralPublicKey), 1, XLen)

\* the number 32 bytes stand for, as a private key: reduced here to the
\* scaled-down group order, 0 being no valid key
BytesAsPrivateKey(bytes) == (bytes[1] * 16 + bytes[2]) % CURVE_ORDER

\* openStealthAddress with a 32-byte ephemeralPublicKey: normalizePublicKey
\* returns it as it is, the library's generateStealthPrivateKey rejects it
\* (no point has 32 bytes), and in openStealthAddressOriginal
\* computeSharedSecret takes 32 bytes for a private key and uses its public
\* key
openStealthAddressBytes32(stealthAddress, bytes, viewingPrivateKey, spendingPrivateKey) ==
    IF ~WalletValid(BytesAsPrivateKey(bytes))
    THEN [ok |-> FALSE, error |-> "invalid private key"]
    ELSE openStealthAddress(stealthAddress, PublicKeyOf(BytesAsPrivateKey(bytes)),
                            viewingPrivateKey, spendingPrivateKey, TRUE)

\* sendStealthPayment: pkx of the generated ephemeral public key goes into
\* sendEth/sendToken and from there into the Announcement event
AnnouncePkx ==
    /\ genRes # None
    /\ genRes.ok
    /\ ann = None
    /\ ann' = [pc |-> "announced", receiver |-> genRes.stealthAddress,
               pkx |-> Pkx(genRes.ephemeralPublicKey),
               record |-> None, open |-> None]
    /\ UNCHANGED <<fees, throwing, uk, send, wpre>>
    /\ UNCHANGED nonAuxVars

\* scanOnChainPayments: the notification built from the event
ScanAnnouncement ==
    /\ ann # None
    /\ ann.pc = "announced"
    /\ ann' = [ann EXCEPT !.pc = "scanned",
                          !.record = [stealthAddress |-> ann.receiver,
                                      ephemeralPublicKey |-> ann.pkx]]
    /\ UNCHANGED <<fees, throwing, uk, send, wpre>>
    /\ UNCHANGED nonAuxVars

\* the recipient opens the scanned record's stealth address with the
\* record's ephemeral public key
OpenScanned ==
    /\ ann # None
    /\ ann.pc = "scanned"
    /\ ann' = [ann EXCEPT !.pc = "opened",
                          !.open = openStealthAddressBytes32(
                                       ann.record.stealthAddress,
                                       ann.record.ephemeralPublicKey,
                                       keys.viewingPrivateKey,
                                       keys.spendingPrivateKey)]
    /\ UNCHANGED <<fees, throwing, uk, send, wpre>>
    /\ UNCHANGED nonAuxVars

InitLedger == StealthIdle /\ WithdrawIdle /\ InitLedgerState

\* ingestion: deliveries, reconcile, the on-chain scan, status updates, saves
NextIngest ==
    \/ Tick
    \/ RemotePut
    \/ HandleGunData
    \/ SyncNotificationsWithState
    \/ SyncOnce
    \/ SaveSettle
    \/ UpdatePaymentStatus
    \/ ScanOnChainPayments
    \/ ScanEventBlockKnown
    \/ ScanNotificationAck
    \/ ScanFinish

SpecIngest == InitLedger /\ [][NextIngest]_vars

\* clear and the cooldown: clear with its chain of puts, reconcile, forced sync
NextClear ==
    \/ Tick
    \/ RemotePut
    \/ HandleGunData
    \/ SyncNotificationsWithState
    \/ ForceSyncNotifications
    \/ SyncOnce
    \/ ClearProcessedPayments
    \/ ClearAck
    \/ ClearTimeout

SpecClear == InitLedger /\ [][NextClear]_vars

\* scans of the chain, one after another, while the clock advances
NextScan ==
    \/ Tick
    \/ UpdatePaymentStatus
    \/ SaveSettle
    \/ ScanOnChainPayments
    \/ ScanEvent
    \/ ScanNotificationAck
    \/ ScanFinish

SpecScan == InitLedger /\ [][NextScan]_vars

\* the steps of a scan that do not wait for the store: its own code, the
\* timers of its saves, the clock
ScanOwnSteps == ScanEvent \/ ScanFinish \/ SaveSettle \/ Tick

\* reconcile over every kind of entry the owner's node can hold
NextReconcile ==
    \/ Tick
    \/ RemotePutAny
    \/ SyncNotificationsWithState
    \/ SyncOnce
    \/ UpdatePaymentStatus
    \/ SaveSettle

SpecReconcile == InitLedger /\ [][NextReconcile]_vars

\* reload of the snapshot among reconcile, status updates and removals
NextLoad ==
    \/ RemotePut
    \/ SyncNotificationsWithState
    \/ SyncOnce
    \/ UpdatePaymentStatus
    \/ SnapshotPut
    \/ LoadInvoke
    \/ LoadOnce
    \/ LoadTimeout
    \/ ForceRemovePayment
    \/ ForceRemovePaymentsByAddress

InitLoad == StealthIdle /\ WithdrawIdle /\ LedgerIdle

SpecLoad == InitLoad /\ [][NextLoad]_vars

InitWithdraw == StealthIdle /\ WithdrawIdle /\ LedgerIdle

NextWithdraw == WithdrawStart \/ Attempt

SpecWithdraw == InitWithdraw /\ [][NextWithdraw]_vars

\* every chain call returns, so an iteration that has started completes
SpecWithdrawFair == SpecWithdraw /\ WF_vars(Attempt)

NextLadder == WithdrawStealthPayment \/ LadderStep \/ MaxAttempt

SpecLadder == InitWithdraw /\ [][NextLadder]_vars

\* derivations from a seed
InitSeed ==
    /\ keys = None /\ genRes = None /\ openRes = None
    /\ kd = KdIdle
    /\ WithdrawIdle
    /\ LedgerIdle

NextSeed == DeriveWalletFromSeed

SpecSeed == InitSeed /\ [][NextSeed]_vars

\* derivations from a signature, against a kit that rejects some signatures
InitSignature ==
    /\ keys = None /\ genRes = None /\ openRes = None
    /\ kd \in [lib : SUBSET KitSignatures, log : {<<>>}]
    /\ WithdrawIdle
    /\ LedgerIdle

NextSignature == GetStealthKeys \/ GenerateStealthKeysFromStringSignature

SpecSignature == InitSignature /\ [][NextSignature]_vars

\* repeated generation of stealth addresses
InitGenerate ==
    /\ keys = None /\ genRes = None /\ openRes = None
    /\ kd \in [lib : SUBSET GeneratePairs, log : {<<>>}]
    /\ WithdrawIdle
    /\ LedgerIdle

NextGenerate == GenerateStealthAddress

SpecGenerate == InitGenerate /\ [][NextGenerate]_vars

\* fee calculations
InitFees == StealthIdle /\ WithdrawIdle /\ LedgerIdle

NextFees == CalculateFees

SpecFees == InitFees /\ [][NextFees]_vars


\* a user's keys: calls of both methods while the puts of earlier calls are
\* on their way, for every sign-in state, signer, SEA pair and registry
InitUserKeys ==
    /\ keys = None /\ genRes = None /\ openRes = None
    /\ kd \in [lib : SUBSET { finalSignature(convertStringToFluidkeySignature(WalletSignature)) },
               log : {<<>>}]
    /\ WithdrawIdle
    /\ now = StartTime
    /\ paymentState = EmptyTable
    /\ paymentCallbacks = 0
    /\ lastClearTimestamp = 0
    /\ notifStore = EmptyNode
    /\ syncPc = "idle"
    /\ pendingSaves = 0
    /\ clear = ClearIdle
    /\ scan = ScanIdle
    /\ fx = NoFx
    /\ hist = [clearDoneAt |-> Never, forced |-> FALSE, scanned |-> {}]
    /\ snapshot = NoData
    /\ load = "idle"
    /\ fees = None
    /\ throwing = {}
    /\ send = None
    /\ wpre = None
    /\ ann = None
    /\ uk \in [userIs : BOOLEAN, signer : BOOLEAN, sea : {<<>>, SeaPriv},
               chain : {None, RegisteredKeys},
               gun : {[private |-> None, public |-> None]},
               pending : {<<>>}, log : {<<>>}]

NextUserKeys == GetUserStealthKeys \/ GetUserStealthKeysWithSEA \/ KeysPutLands

SpecUserKeys == InitUserKeys /\ [][NextUserKeys]_vars

\* withdrawals started while the listener fills the table
NextPrelude == Tick \/ RemotePut \/ HandleGunData \/ SaveSettle \/ WithdrawPrelude

SpecPrelude == InitLedger /\ [][NextPrelude]_vars

\* payments sent
InitSend == StealthIdle /\ WithdrawIdle /\ LedgerIdle

NextSend == SendStealthPayment

SpecSend == InitSend /\ [][NextSend]_vars

\* status updates with and without a transaction hash, on records the
\* listener ingested
NextUpdate == RemotePut \/ HandleGunData \/ SaveSettle \/ UpdatePaymentStatusOptional

SpecUpdate == InitLedger /\ [][NextUpdate]_vars

\* observers registered one after another, some of them throwing, while the
\* listener, reconcile and reloads deliver
InitObservers ==
    /\ StealthIdle
    /\ WithdrawIdle
    /\ fees = None
    /\ uk = UkIdle
    /\ send = None
    /\ wpre = None
    /\ ann = None
    /\ throwing \in {{}, {1}}
    /\ now = StartTime
    /\ paymentState = EmptyTable
    /\ paymentCallbacks = 0
    /\ lastClearTimestamp = 0
    /\ notifStore = EmptyNode
    /\ syncPc = "idle"
    /\ pendingSaves = 0
    /\ clear = ClearIdle
    /\ scan = ScanIdle
    /\ fx = NoFx
    /\ hist = [clearDoneAt |-> Never, forced |-> FALSE, scanned |-> {}]
    /\ snapshot = NoData
    /\ load = "idle"

NextObservers ==
    \/ RemotePut
    \/ HandleGunData
    \/ SyncNotificationsWithState
    \/ SyncOnce
    \/ SnapshotPut
    \/ LoadInvokeObservers
    \/ LoadOnce
    \/ LoadTimeout
    \/ ForceRemovePayment

SpecObservers == InitObservers /\ [][NextObservers]_vars

InitStealth == InitStealthEngine /\ WithdrawIdle /\ LedgerIdle

NextStealth == Generate \/ Open

SpecStealth == InitStealth /\ [][NextStealth]_vars

\* a payment from the sender's generate to the recipient's open, through the
\* announcement on the chain
NextAnnounce == Generate \/ AnnouncePkx \/ ScanAnnouncement \/ OpenScanned

SpecAnnounce == InitStealth /\ [][NextAnnounce]_vars

(***************************************************************************)
(* C1  Round trip: opening the address and ephemeral public key returned   *)
(* by generate, with the recipient's private keys, succeeds and returns a  *)
(* wallet with that address, on whichever path generate and open run.      *)
(***************************************************************************)
C1_RoundTrip ==
    (/\ genRes # None
     /\ genRes.ok
     /\ openRes # None
     /\ openRes.stealthAddress = genRes.stealthAddress
     /\ openRes.ephemeralPublicKey = genRes.ephemeralPublicKey)
    => (openRes.res.ok /\ openRes.res.address = genRes.stealthAddress)

(***************************************************************************)
(* C2  openStealthAddress never returns a wallet whose address differs,    *)
(* case-insensitively, from the stealthAddress argument.                   *)
(***************************************************************************)
C2_OpenNeverMismatches ==
    (openRes # None /\ openRes.res.ok)
    => toLowerCase(openRes.res.address) = toLowerCase(openRes.stealthAddress)

\* a wallet returned by the fallback after the primary path computed another
\* address, for an address given in lower case
C2_Witness ==
    /\ openRes # None
    /\ openRes.res.ok
    /\ openRes.res.path = "fallback"
    /\ ~openRes.libraryRaises
    /\ openRes.stealthAddress.form = "lower"

(***************************************************************************)
(* C9  The retry loop of withdrawStealthPaymentEnhanced is bounded: one    *)
(* call submits at most 20 transactions, 20 insufficient-funds failures    *)
(* end the call with the 'failed after 20 attempts' error, and a call in   *)
(* the loop always ends (each chain call returning).                       *)
(***************************************************************************)
C9_BoundedRetries ==
    /\ [](/\ wd.submitted <= 20
          /\ wd.retryCount <= 20
          /\ (wd.retryCount = 20 =>
                /\ wd.pc = "done"
                /\ wd.result = [ok |-> FALSE, error |-> FailedAfterRetries(wd.lastError)]))
    /\ ((wd.pc = "loop") ~> (wd.pc = "done"))

\* twenty transactions were submitted and the call ended with the error
C9_Witness ==
    /\ wd.pc = "done"
    /\ wd.submitted = 20
    /\ wd.retryCount = 20
    /\ ~wd.result.ok

(***************************************************************************)
(* C10  An attempt that fails with an error other than an                  *)
(* insufficient-funds error (the internal 'balance does not cover gas'     *)
(* error included) ends the call with that same error and nothing more is  *)
(* submitted; only an insufficient-funds failure leads to another attempt. *)
(***************************************************************************)
C10_OtherErrorsAbort ==
    [][/\ (wd.pc = "loop" /\ wd'.pc = "loop") =>
             /\ wd'.lastError = InsufficientFundsRpcError
             /\ wd'.retryCount = wd.retryCount + 1
       /\ (wd.pc = "loop" /\ wd'.pc = "done" /\ ~wd'.result.ok
             /\ wd'.lastError # InsufficientFundsRpcError) =>
             wd'.result.error = wd'.lastError
       /\ (wd.pc = "done") => (wd'.submitted = 0)]_vars

\* a retried call aborted by the internal gas check
C10_Witness ==
    /\ wd.pc = "done"
    /\ wd.retryCount > 0
    /\ wd.submitted > 0
    /\ wd.result = [ok |-> FALSE, error |-> InsufficientBalanceForGas]

(***************************************************************************)
(* C3  Ingest is idempotent: a delivery (listener or reconcile) in which   *)
(* every accepted entry of the store already has its record in the table,  *)
(* built from that same entry by an earlier delivery, leaves the table as  *)
(* it was, so that the table holds one record for each entry.              *)
(***************************************************************************)
C3_IngestIdempotent ==
    [][(/\ fx'.kind = "ingest"
        /\ fx'.info \in {"listener", "sync"}
        /\ fx'.ids # {}
        /\ \A k \in DOMAIN notifStore :
              (/\ ItemIsPayment(notifStore[k])
               /\ IF fx'.info = "listener"
                  THEN ListenerAcceptsKey(k, notifStore[k])
                  ELSE SyncAcceptsKey(k))
              => \E id \in DOMAIN paymentState :
                    /\ id[1] = k
                    /\ LET n == Notification(k, notifStore[k], id[2])
                       IN  \A f \in DOMAIN n : paymentState[id][f] = n[f])
       => paymentState' = paymentState]_vars

(***************************************************************************)
(* C4  Ingest never overwrites: a step of the listener, of reconcile or of *)
(* the scan leaves every record already in the table unchanged in every    *)
(* field; observers are called for the inserted records only, and when     *)
(* every id handed to ingest is already in the table no observer is called *)
(* and no snapshot write is started.                                       *)
(***************************************************************************)
C4_IngestNeverOverwrites ==
    [][fx'.kind = "ingest" =>
         /\ \A id \in DOMAIN paymentState :
               /\ id \in DOMAIN paymentState'
               /\ paymentState'[id] = paymentState[id]
         /\ fx'.calls = paymentCallbacks * Cardinality(fx'.ids \ DOMAIN paymentState)
         /\ (fx'.ids \subseteq DOMAIN paymentState) =>
               /\ fx'.saves = 0
               /\ pendingSaves' = pendingSaves
               /\ paymentState' = paymentState]_vars

\* the scan has met an announcement whose record is in the table as claimed
C4_Witness ==
    /\ fx.kind = "ingest"
    /\ fx.info = "scan"
    /\ fx.new = {}
    /\ \E id \in fx.ids :
          /\ id \in DOMAIN paymentState
          /\ paymentState[id].status = "claimed"
          /\ paymentState[id].txHash \in TxHashes

(***************************************************************************)
(* C5 as stated: a reconcile invoked less than 30 s after the last clear   *)
(* has completed returns without reading the store and inserts nothing.    *)
(***************************************************************************)
C5_CooldownAsStated ==
    [][(/\ fx'.kind = "sync"
        /\ hist.clearDoneAt # Never
        /\ now - hist.clearDoneAt < 30000)
       => (/\ fx'.info = "skipped"
           /\ syncPc' = "idle"
           /\ paymentState' = paymentState)]_vars

(***************************************************************************)
(* C5  Cooldown: a reconcile (syncNotificationsWithState or                *)
(* forceSyncNotifications(false)) invoked less than 30 s after the last    *)
(* clear has completed, with no forceSyncNotifications(true) invoked since *)
(* that clear, returns without reading the store and inserts nothing,      *)
(* whatever the store contains.                                            *)
(***************************************************************************)
C5_Cooldown ==
    [][(/\ fx'.kind = "sync"
        /\ hist.clearDoneAt # Never
        /\ now - hist.clearDoneAt < 30000
        /\ ~hist.forced)
       => (/\ fx'.info = "skipped"
           /\ syncPc' = "idle"
           /\ paymentState' = paymentState)]_vars

\* a reconcile was skipped in the cooldown while the store held a valid
\* notification the table lacks
C5_Witness ==
    /\ fx.kind = "sync"
    /\ fx.info = "skipped"
    /\ hist.clearDoneAt # Never
    /\ ~hist.forced
    /\ now - hist.clearDoneAt < 30000
    /\ \E k \in DOMAIN notifStore :
          /\ ItemIsPayment(notifStore[k])
          /\ notifStore[k].timestamp # 0
          /\ <<k, notifStore[k].timestamp>> \notin DOMAIN paymentState

(***************************************************************************)
(* C6  forceSyncNotifications(true) resets the cooldown and reads the      *)
(* store at once; the read of a reconcile inserts every notification of    *)
(* the store that has amount, ephemeral key and sender and whose key is    *)
(* absent from the table; a plain reconcile invoked 30 s or more after the *)
(* last clear has completed reads the store as well.                       *)
(***************************************************************************)
C6_ForceSyncReconciles ==
    [][/\ (fx'.kind = "forceSync") =>
             /\ lastClearTimestamp' = 0
             /\ syncPc' = "reading"
       /\ (fx'.kind = "sync" /\ hist.clearDoneAt # Never
             /\ now - hist.clearDoneAt >= 30000) =>
             syncPc' = "reading"
       /\ (syncPc = "reading" /\ syncPc' = "idle") =>
             \A k \in DOMAIN notifStore :
                (/\ notifStore[k].amount # ""
                 /\ notifStore[k].ephemeralPublicKey # ""
                 /\ notifStore[k].sender # "")
                => LET id == <<k, IF notifStore[k].timestamp # 0
                                  THEN notifStore[k].timestamp ELSE now>>
                   IN  /\ id \in DOMAIN paymentState'
                       /\ (id \notin DOMAIN paymentState =>
                             /\ paymentState'[id].status = "pending"
                             /\ paymentState'[id].amount = notifStore[k].amount)]_vars

\* in the cooldown of a clear, a forced sync has read the store and inserted
\* a notification
C6_Witness ==
    /\ fx.kind = "ingest"
    /\ fx.info = "sync"
    /\ fx.new # {}
    /\ hist.forced
    /\ hist.clearDoneAt # Never
    /\ now - hist.clearDoneAt < 30000
    /\ lastClearTimestamp = 0

(***************************************************************************)
(* C7  clear is unconditional: when clearProcessedPayments returns, the    *)
(* table is empty, the cooldown starts at that moment, the count returned  *)
(* is the number of records held before the call, and put(null) has been   *)
(* issued for the snapshot and for the notification set of the owner,      *)
(* whatever the store does with each write it accepts (acknowledged with   *)
(* success, with an error, or never).                                      *)
(***************************************************************************)
C7_ClearUnconditional ==
    [][(fx'.kind = "clearReturn" /\ ~fx'.threw) =>
         /\ paymentState' = EmptyTable
         /\ lastClearTimestamp' = now'
         /\ fx'.info.count = (IF clear.call = "awaiting" THEN clear.total
                              ELSE Cardinality(DOMAIN paymentState))
         /\ {"stealth_payment_state", "stealth_payments"} \subseteq fx'.info.issued]_vars

C11_LadderOrder ==
    LET a == ladder.attempts
        below == SelectSeq(smallAmounts, LAMBDA x : x < ladder.balance)
    IN  /\ Len(a) <= Len(below) + 1
        /\ \A j \in 1 .. Len(a) :
              /\ (j <= Len(below)) => a[j].value = below[j]
              /\ (a[j].outcome = "ok") =>
                    /\ j = Len(a)
                    /\ ladder.pc = "done"
                    /\ ladder.result = [ok |-> TRUE, tx |-> a[j]]
              /\ (j < Len(a)) => a[j].outcome # "ok"
        /\ (ladder.pc = "max") => Len(a) = Len(below)
        /\ (ladder.pc = "done" /\ ~ladder.result.ok /\ ladder.balance > 0) =>
              Len(a) >= Len(below)

\* the third amount below the balance succeeded after two failures, the
\* larger amounts having been skipped
C11_Witness ==
    /\ ladder.pc = "done"
    /\ ladder.result.ok
    /\ ladder.balance = 700000
    /\ Len(ladder.attempts) = 3
    /\ ladder.attempts[1].value = 500000
    /\ ladder.attempts[3].value = 50000

(***************************************************************************)
(* C12  Gas is always reserved: every native transfer submitted by         *)
(* withdrawStealthPayment or by withdrawStealthPaymentEnhanced has a       *)
(* positive value, and value + gasLimit * gasPrice is at most the balance  *)
(* read at the start of the call.                                          *)
(***************************************************************************)
C12_GasReserved ==
    /\ \A j \in 1 .. Len(ladder.attempts) :
          /\ ladder.attempts[j].value > 0
          /\ ladder.attempts[j].value
               + ladder.attempts[j].gasLimit * ladder.attempts[j].gasPrice
             <= ladder.balance
    /\ (wd.lastTx # None) =>
          /\ wd.lastTx.value > 0
          /\ wd.lastTx.value + wd.lastTx.gasLimit * wd.lastTx.gasPrice <= wd.balance

(***************************************************************************)
(* C13  A record of the table keeps its fields other than status and       *)
(* txHash in every step, its status and txHash change only in a step of    *)
(* updatePaymentStatus, and it leaves the table only in a step of          *)
(* clearProcessedPayments, forceRemovePayment or                           *)
(* forceRemovePaymentsByAddress; a reload of the snapshot changes no       *)
(* record already in the table.                                            *)
(***************************************************************************)
C13_RecordsImmutable ==
    [][\A id \in DOMAIN paymentState :
          IF id \notin DOMAIN paymentState'
          THEN fx'.kind \in {"clearStart", "clearReturn", "forceRemove"}
          ELSE LET old == paymentState[id]
                   new == paymentState'[id]
                   frame(r) == DOMAIN r \ {"status", "txHash"}
                   mutable(r) == [f \in DOMAIN r \cap {"status", "txHash"} |-> r[f]]
               IN  /\ frame(old) = frame(new)
                   /\ \A f \in frame(old) : old[f] = new[f]
                   /\ (mutable(old) # mutable(new)) => fx'.kind = "update"]_vars

(***************************************************************************)
(* C14  In every reachable state every record of the table has a status,   *)
(* and it is one of pending, claimed, expired.                             *)
(***************************************************************************)
C14_StatusSet ==
    \A id \in DOMAIN paymentState :
        /\ "status" \in DOMAIN paymentState[id]
        /\ paymentState[id].status \in {"pending", "claimed", "expired"}

(***************************************************************************)
(* C15  In every reachable state every record of the table has a           *)
(* non-empty amount, ephemeral public key and sender.                      *)
(***************************************************************************)
C15_RecordsComplete ==
    \A id \in DOMAIN paymentState :
        /\ paymentState[id].amount # ""
        /\ paymentState[id].ephemeralPublicKey # ""
        /\ paymentState[id].sender # ""

(***************************************************************************)
(* C16  A delivery of the live subscription that is processed inserts,     *)
(* with status 'pending', every entry keyed by a 0x-prefixed address whose *)
(* value has amount, ephemeral public key and sender and no metadata       *)
(* marker, when its composite key is absent from the table.                *)
(***************************************************************************)
C16_ListenerAccepts0xKeys ==
    [][(fx'.kind = "ingest" /\ fx'.info = "listener") =>
         \A k \in DOMAIN notifStore :
            (/\ KeyStartsWith0x(k)
             /\ notifStore[k].amount # ""
             /\ notifStore[k].ephemeralPublicKey # ""
             /\ notifStore[k].sender # ""
             /\ ~notifStore[k].meta)
            => LET id == <<k, IF notifStore[k].timestamp # 0
                              THEN notifStore[k].timestamp ELSE now>>
               IN  /\ id \in DOMAIN paymentState'
                   /\ (id \notin DOMAIN paymentState) =>
                         paymentState'[id].status = "pending"]_vars

(***************************************************************************)
(* C17  When the read of a reconcile returns, the table holds a record for *)
(* every entry of the owner's node that has amount, ephemeral public key   *)
(* and sender, no metadata marker, and a key that is neither purely        *)
(* numeric nor one of the store's own; nothing else is inserted; records   *)
(* already present are unchanged; and savePaymentState is called if and    *)
(* only if a record was recovered (its put being issued unless it raises). *)
(***************************************************************************)
C17_ReconcileRecoversAll ==
    [][(syncPc = "reading" /\ syncPc' = "idle") =>
         LET valid == { k \in DOMAIN notifStore :
                          /\ ~(KeyIsNumeric(k) /\ ~KeyStartsWith0x(k))
                          /\ ~KeyIsSpecial(k)
                          /\ notifStore[k].amount # ""
                          /\ notifStore[k].ephemeralPublicKey # ""
                          /\ notifStore[k].sender # ""
                          /\ ~notifStore[k].meta }
             idOf(k) == <<k, IF notifStore[k].timestamp # 0
                             THEN notifStore[k].timestamp ELSE now>>
             recovered == DOMAIN paymentState' \ DOMAIN paymentState
         IN  /\ \A k \in valid : idOf(k) \in DOMAIN paymentState'
             /\ recovered \subseteq { idOf(k) : k \in valid }
             /\ \A id \in DOMAIN paymentState :
                   /\ id \in DOMAIN paymentState'
                   /\ paymentState'[id] = paymentState[id]
             /\ (fx'.saves > 0 \/ fx'.threw) <=> (recovered # {})
             /\ (~fx'.threw) => (pendingSaves' # pendingSaves => recovered # {})]_vars

\* a reconcile recovered one record, left a claimed one as it was, skipped a
\* purely numeric key and wrote the snapshot
C17_Witness ==
    /\ fx.kind = "ingest"
    /\ fx.info = "sync"
    /\ Cardinality(fx.new) = 1
    /\ fx.saves > 0
    /\ "123" \in DOMAIN notifStore
    /\ \E id \in fx.ids \ fx.new : paymentState[id].status = "claimed"
    /\ \A id \in DOMAIN paymentState : id[1] # "123"

(***************************************************************************)
(* C18  An announcement event that a scan has ingested is not ingested     *)
(* again by a later scan of the same range: the step of the loop for that  *)
(* event inserts no record, leaves the table as it was and does not count  *)
(* the event in foundPayments.                                             *)
(***************************************************************************)
C18_ScanIngestsOnce ==
    [][(scan.pc = "loop" /\ fx'.kind = "ingest" /\ fx'.info = "scan"
        /\ Head(scan.queue).transactionHash \in hist.scanned) =>
         /\ fx'.new = {}
         /\ paymentState' = paymentState
         /\ scan'.foundPayments = scan.foundPayments]_vars

(***************************************************************************)
(* C19  Two derivations from the same seed for the same purpose give the   *)
(* same key pair, and the viewing private key of a seed differs from its   *)
(* spending private key.                                                   *)
(***************************************************************************)
C19_SeedDerivation ==
    \A i, j \in 1..Len(kd.log) :
        (/\ kd.log[i].op = "deriveWalletFromSeed"
         /\ kd.log[j].op = "deriveWalletFromSeed"
         /\ kd.log[i].args[1] = kd.log[j].args[1]) =>
            IF kd.log[i].args[2] = kd.log[j].args[2]
            THEN kd.log[i].result = kd.log[j].result
            ELSE kd.log[i].result.privateKey # kd.log[j].result.privateKey

\* the viewing key was derived twice and the spending key once, from one seed
C19_Witness ==
    /\ Len(kd.log) = 3
    /\ \A i \in 1..3 : kd.log[i].op = "deriveWalletFromSeed"
                       /\ kd.log[i].args[1] = Str(<<"h", "i">>)
    /\ kd.log[1].args[2] = "viewing"
    /\ kd.log[2].args[2] = "spending"
    /\ kd.log[3].args[2] = "viewing"

C21_InvalidSignatureFails ==
    \A i \in 1..Len(kd.log) :
        (/\ kd.log[i].op \in {"getStealthKeys", "generateStealthKeysFromStringSignature"}
         /\ kd.log[i].args[1] # <<>>
         /\ kd.log[i].args[1] # DefaultSeed
         /\ \/ ~IsHexString(Strip0x(kd.log[i].args[1]))
            \/ Len(Strip0x(kd.log[i].args[1])) < MinSigLen) =>
            "viewingKey" \notin DOMAIN kd.log[i].result

(***************************************************************************)
(* C22  Two calls of generateStealthAddress with the same ephemeral        *)
(* private key and the same spending public key return the same stealth    *)
(* address, whatever the viewing public key and the spending private key   *)
(* argument.                                                               *)
(***************************************************************************)
C22_AddressDependsOnPairOnly ==
    \A i, j \in 1..Len(kd.log) :
        (/\ kd.log[i].op = "generateStealthAddress"
         /\ kd.log[j].op = "generateStealthAddress"
         /\ kd.log[i].args.ephemeralPrivateKey = kd.log[j].args.ephemeralPrivateKey
         /\ kd.log[i].args.spendingPublicKey = kd.log[j].args.spendingPublicKey
         /\ kd.log[i].result.ok
         /\ kd.log[j].result.ok) =>
            kd.log[i].result.stealthAddress = kd.log[j].result.stealthAddress

(***************************************************************************)
(* C23  calculateFees returns totalCost = amount + toll + estimatedGas x   *)
(* gasPrice, with estimatedGas the default 21000 when the gas estimate     *)
(* call fails; the call fails exactly when the plugin is not initialised,  *)
(* the toll or the fee data cannot be read, or the amount is not the       *)
(* string of an integer.                                                   *)
(***************************************************************************)
C23_FeesBreakdown ==
    (fees # None) =>
        /\ fees.result.ok <=> (/\ fees.plugin = "ready"
                               /\ fees.tollRead = "ok"
                               /\ fees.feeRead = "ok"
                               /\ fees.amount.integer)
        /\ fees.result.ok =>
              /\ fees.result.estimatedGas =
                    (IF fees.estimate = 0 THEN 21000 ELSE fees.estimate)
              /\ fees.result.totalCost =
                    fees.amount.value + fees.toll
                    + fees.result.estimatedGas * fees.result.breakdown.gasPrice
              /\ fees.result.breakdown.gasPrice =
                    (IF fees.gasPriceIn = 0 THEN 20 ELSE fees.gasPriceIn)

\* the gas estimate failed and the breakdown was returned with the default
C23_Witness ==
    /\ fees # None
    /\ fees.estimate = 0
    /\ fees.result.ok
    /\ fees.toll = 3
    /\ fees.amount = IntegerString(7)
    /\ fees.result.totalCost = 7 + 3 + 21000 * fees.result.breakdown.gasPrice

\* C23 as stated: only a failure to read the toll or the gas price makes the
\* call fail
C23_AsStated ==
    (fees # None /\ fees.plugin = "ready") =>
        (fees.result.ok <=> (fees.tollRead = "ok" /\ fees.feeRead = "ok"))

(***************************************************************************)
(* C24  In withdrawStealthPaymentEnhanced, with an unchanged gas cost, a   *)
(* retry submits a smaller amount than the retry before it.                *)
(***************************************************************************)
C24_RetrySendsLess ==
    [][(/\ wd.pc = "loop"
        /\ wd'.submitted = wd.submitted + 1
        /\ wd.lastTx # None
        /\ wd'.lastTx.gasLimit = wd.lastTx.gasLimit
        /\ wd'.lastTx.gasPrice = wd.lastTx.gasPrice) =>
          wd'.lastTx.value < wd.lastTx.value]_vars

C26_ScanWritesBounded ==
    (scan.pc = "savingNotification") => ENABLED <<ScanOwnSteps>>_scan

(***************************************************************************)
(* C27  getUserStealthKeys returns the stored keys when the store has      *)
(* them, otherwise the registered keys, and derives keys only when it      *)
(* found neither; and every call of it that returns keys returns the keys  *)
(* its earlier calls returned.                                             *)
(***************************************************************************)
C27_KeysInOrderAndStable ==
    /\ \A i \in DOMAIN uk.log :
         LET c == uk.log[i]
         IN  (c.op = "getUserStealthKeys" /\ c.source # "error") =>
                /\ (c.stored # None) => (c.source = "gun" /\ c.keys = c.stored)
                /\ (c.stored = None /\ c.registered # None) =>
                       (c.source = "chain" /\ c.keys = c.registered)
                /\ (c.source = "generated") <=> (c.stored = None /\ c.registered = None)
    /\ \A i, j \in DOMAIN uk.log :
         (/\ i < j
          /\ uk.log[i].op = "getUserStealthKeys"
          /\ uk.log[j].op = "getUserStealthKeys"
          /\ uk.log[i].keys # None
          /\ uk.log[j].keys # None) => uk.log[j].keys = uk.log[i].keys

(***************************************************************************)
(* C28  For a user with no stored keys, getUserStealthKeys followed by     *)
(* getUserStealthKeysWithSEA, the wallet signing and the registry          *)
(* answering on both calls, return the same viewing and spending public    *)
(* keys, whether or not the puts of the first call have reached the store. *)
(***************************************************************************)
C28_SameKeysBothMethods ==
    \A i \in DOMAIN uk.log :
        (/\ i + 1 \in DOMAIN uk.log
         /\ uk.log[i].op = "getUserStealthKeys"
         /\ uk.log[i + 1].op = "getUserStealthKeysWithSEA"
         /\ uk.log[i].stored = None
         /\ uk.log[i].signs /\ uk.log[i + 1].signs
         /\ uk.log[i].chainRead = "ok" /\ uk.log[i + 1].chainRead = "ok"
         /\ uk.log[i].keys # None
         /\ uk.log[i + 1].keys # None)
        => /\ uk.log[i + 1].keys.viewingKey.publicKey = uk.log[i].keys.viewingKey.publicKey
           /\ uk.log[i + 1].keys.spendingKey.publicKey = uk.log[i].keys.spendingKey.publicKey

(***************************************************************************)
(* C29  A withdrawal called without an ephemeral public key, by a user who *)
(* has keys, uses the ephemeral public key of a record the table holds for *)
(* the stealth address, and ends with "payment not found" only when the    *)
(* table holds no record for that address.                                 *)
(***************************************************************************)
C29_RecordKeyUsed ==
    (wpre # None /\ wpre.ephemeralPublicKey = "" /\ wpre.hasKeys) =>
        IF wpre.records = {}
        THEN ~wpre.result.ok /\ wpre.result.error = PaymentNotFoundError
        ELSE /\ wpre.result.ok
             /\ \E r \in wpre.records :
                    wpre.result.ephemeralKey = r.ephemeralPublicKey

(***************************************************************************)
(* C30  A sendStealthPayment that got past its guards, read the toll and   *)
(* the signer's balance and found the recipient's keys, the balance being  *)
(* below amount + toll for the native asset or below the toll for a token, *)
(* fails with the insufficient-balance error, calls neither sendEth nor    *)
(* sendToken and writes no notification.                                   *)
(***************************************************************************)
C30_InsufficientBalanceRejected ==
    (/\ send # None
     /\ send.plugin = "ready" /\ send.code
     /\ send.tollRead = "ok" /\ send.balanceRead = "ok"
     /\ send.amount.integer
     /\ send.recipientKeys
     /\ send.balance < RequiredAmount(send.token, send.amount, send.toll))
    => /\ ~send.result.ok
       /\ send.result.error = "insufficientBalance"
       /\ send.result.submitted = 0
       /\ ~send.result.notified

(***************************************************************************)
(* C31  In sendStealthPayment the notification is put only after sendEth   *)
(* or sendToken returned a transaction; no transaction is submitted when   *)
(* the recipient's public keys are not found; and a notification put that  *)
(* is acknowledged with an error leaves the call successful.               *)
(***************************************************************************)
C31_NotificationAfterSend ==
    (send # None) =>
        /\ \A i \in DOMAIN send.result.effects :
               (send.result.effects[i] = "put") =>
                   /\ send.tx = "sent"
                   /\ \E j \in 1..(i - 1) : send.result.effects[j] = "send"
        /\ (~send.recipientKeys) =>
               (send.result.submitted = 0 /\ send.result.effects = <<>>)
        /\ (send.result.notified /\ send.write = "ack_err") => send.result.ok

C31_Witness ==
    /\ send # None
    /\ send.tx = "sent"
    /\ send.write = "ack_err"
    /\ send.result.effects = <<"send", "put">>
    /\ send.result.ok

(***************************************************************************)
(* C32  withdrawStealthPayment sends the computed maximum, balance minus   *)
(* the estimated gas cost, at most once, only when it is positive and only *)
(* after every fixed amount below the balance has failed; when the maximum *)
(* fails or is not positive the call ends with the insufficient-balance    *)
(* error; with a zero balance the call ends with an error and has sent     *)
(* nothing.                                                                *)
(***************************************************************************)
C32_MaximumLast ==
    LET a == ladder.attempts
        below == SelectSeq(smallAmounts, LAMBDA x : x < ladder.balance)
        maxTransferAmount == ladder.balance - ladder.estimatedGasLimit * ladder.gasPrice
    IN  /\ Len(a) <= Len(below) + 1
        /\ \A j \in 1 .. Len(a) :
              (j > Len(below)) =>
                  /\ a[j].value = maxTransferAmount
                  /\ maxTransferAmount > 0
                  /\ \A k \in 1 .. Len(below) : a[k].outcome # "ok"
        /\ (/\ ladder.pc = "done"
            /\ ladder.balance > 0
            /\ \A k \in 1 .. Len(a) : a[k].outcome # "ok")
           => /\ ladder.result = [ok |-> FALSE, error |-> LadderFailedError]
              /\ Len(a) = Len(below) + (IF maxTransferAmount > 0 THEN 1 ELSE 0)
        /\ (ladder.pc = "done" /\ ladder.result = [ok |-> FALSE, error |-> NoBalanceError])
           => a = <<>>

\* every fixed amount below the balance failed, then the maximum failed
C32_Witness ==
    /\ ladder.pc = "done"
    /\ ladder.balance = 700000
    /\ Len(ladder.attempts) = 7
    /\ ladder.attempts[7].value > 0
    /\ ladder.attempts[7].outcome # "ok"
    /\ ladder.result = [ok |-> FALSE, error |-> LadderFailedError]

(***************************************************************************)
(* C33  updatePaymentStatus on a key the table does not hold changes no    *)
(* record and issues no put; on a key the table holds it sets the status   *)
(* and the txHash of that record only, every other record and every other  *)
(* field staying as it was, and a call without txHash leaves the record's  *)
(* txHash as it was.                                                       *)
(***************************************************************************)
C33_UpdateFrame ==
    [][(fx'.kind = "update") =>
          LET call == fx'.info
          IN  IF call.id \notin DOMAIN paymentState
              THEN paymentState' = paymentState /\ fx'.saves = 0
                   /\ pendingSaves' = pendingSaves
              ELSE LET old == paymentState[call.id]
                       new == paymentState'[call.id]
                   IN  /\ DOMAIN paymentState' = DOMAIN paymentState
                       /\ \A id \in DOMAIN paymentState \ {call.id} :
                              paymentState'[id] = paymentState[id]
                       /\ \A f \in DOMAIN old \ {"status", "txHash"} :
                              f \in DOMAIN new /\ new[f] = old[f]
                       /\ new.status = call.status
                       /\ IF call.txHash # UndefinedTxHash
                          THEN new.txHash = call.txHash
                          ELSE ("txHash" \in DOMAIN old) =>
                                   ("txHash" \in DOMAIN new /\ new.txHash = old.txHash)
      ]_vars

(***************************************************************************)
(* C34  The pkx announced by sendStealthPayment is the x-coordinate of the *)
(* ephemeral public key, and for an address generated on the library path  *)
(* openStealthAddress with the scanned record's ephemeral key and the      *)
(* recipient's private keys returns the wallet of the stealth address.     *)
(***************************************************************************)
C34_PkxOpens ==
    (ann # None) =>
        /\ ann.pkx = XCoordinate(genRes.ephemeralPublicKey)
        /\ (ann.pc = "opened" /\ genRes.path = "primary") =>
               /\ ann.open.ok
               /\ toLowerCase(ann.open.address) = toLowerCase(genRes.stealthAddress)

(***************************************************************************)
(* One payment seen through both sources: the store notification written   *)
(* by its sender and the Announcement event of its transaction             *)
(***************************************************************************)
\* sendStealthPayment's notification of the payment announced in ChainLog:
\* same stealth address, amount and token; timestamp is the sender's clock
SenderNotification ==
    [Item(ChainLog[1].amount, ItemTime) EXCEPT !.token = ChainLog[1].token]

\* the sender's put under the stealth address reaches the store
RemotePutSender ==
    LET e == <<ChainLog[1].receiver, SenderNotification>>
    IN  /\ IF e[1] \in DOMAIN notifStore THEN notifStore[e[1]] # e[2] ELSE TRUE
        /\ notifStore' = [k \in DOMAIN notifStore \cup {e[1]} |->
                            IF k = e[1] THEN e[2] ELSE notifStore[k]]
        /\ fx' = NoFx
        /\ UNCHANGED <<now, paymentState, paymentCallbacks, lastClearTimestamp,
                       syncPc, pendingSaves, clear, scan, hist>>
        /\ UNCHANGED nonLedgerVars

NextBothSources ==
    \/ Tick
    \/ RemotePutSender
    \/ HandleGunData
    \/ SyncNotificationsWithState
    \/ SyncOnce
    \/ SaveSettle
    \/ ScanOnChainPayments
    \/ ScanEventBlockKnown
    \/ ScanNotificationAck
    \/ ScanFinish

SpecBothSources == InitLedger /\ [][NextBothSources]_vars

(***************************************************************************)
(* C35  A payment known from its store notification and from the scan of   *)
(* its announcement is one record: the table never holds two records with  *)
(* the stealth address of the payment.                                     *)
(***************************************************************************)
C35_OneRecordPerPayment ==
    Cardinality({id \in DOMAIN paymentState : id[1] = ChainLog[1].receiver}) <= 1

(***************************************************************************)
(* C36  From the moment clearProcessedPayments empties the table until the *)
(* cooldown of that clear expires the table stays empty: neither a         *)
(* reconcile nor a listener delivery inserts a record while the remote     *)
(* deletions are awaited or during the 30 s that follow the return (no     *)
(* forceSyncNotifications(true) having been invoked since the return).     *)
(***************************************************************************)
C36_EmptyFromClearToCooldownEnd ==
    (\/ clear.call = "awaiting"
     \/ /\ hist.clearDoneAt # Never
        /\ ~hist.forced
        /\ now - hist.clearDoneAt < CooldownMs)
    => paymentState = EmptyTable

(***************************************************************************)
(* C37  One call of withdrawStealthPayment moves funds at most once: a     *)
(* transaction that sendTransaction returned (accepted by the network) is  *)
(* the last one the call submits, also when its wait() fails; every        *)
(* attempt followed by another one was refused at submission.              *)
(***************************************************************************)
C37_AcceptedTransactionIsLast ==
    \A k \in 1 .. Len(ladder.attempts) :
        (k < Len(ladder.attempts)) => ladder.attempts[k].outcome = "sendFails"

(***************************************************************************)
(* The writers of the payment table in one session: the listener and the   *)
(* reconcile (addPaymentToState, which the scan calls as well), the load   *)
(* of the snapshot and status updates                                      *)
(***************************************************************************)
NextTable ==
    \/ RemotePut
    \/ HandleGunData
    \/ SyncNotificationsWithState
    \/ SyncOnce
    \/ UpdatePaymentStatus
    \/ SnapshotPut
    \/ LoadInvoke
    \/ LoadOnce

SpecTable == InitLedger /\ [][NextTable]_vars

(***************************************************************************)
(* C38  In every reachable state each entry of the payment table is stored *)
(* under the key made of the stealth address and the timestamp of the      *)
(* record it holds, so getPayment(a, t) returns a record, and hasPayment   *)
(* (a, t) is true, exactly when the table holds a record with stealth      *)
(* address a and timestamp t.                                              *)
(***************************************************************************)
C38_KeyedByAddressAndTimestamp ==
    /\ \A id \in DOMAIN paymentState :
          id = <<paymentState[id].stealthAddress, paymentState[id].timestamp>>
    /\ \A a \in StoreKeys, t \in {0, ItemTime, StartTime, BlockTime * 1000} :
          (getPayment(paymentState, a, t) # None)
          <=> (\E id \in DOMAIN paymentState :
                  /\ paymentState[id].stealthAddress = a
                  /\ paymentState[id].timestamp = t)

\* a load has replaced the record of a reconciled notification, whose status
\* had been updated, by the element of the snapshot, next to a record the
\* listener inserted
C38_Witness ==
    /\ fx.kind = "load"
    /\ getPayment(paymentState, "0xA", ItemTime) # None
    /\ "status" \in DOMAIN getPayment(paymentState, "0xA", ItemTime)
    /\ getPayment(paymentState, "0xA", ItemTime).status = "refunded"
    /\ getPayment(paymentState, "pay", StartTime) # None
    /\ getPayment(paymentState, "pay", StartTime).status = "claimed"

(***************************************************************************)
(* C39  getStealthKeys(signature) returns keys for every signature string  *)
(* and every failure of the library path: the keys of the library when it  *)
(* succeeds, otherwise the keys of the hash-based derivation of the same   *)
(* string, reached by one fallback and without a further attempt.          *)
(***************************************************************************)
C39_DerivationAlwaysYieldsKeys ==
    \A i \in 1 .. Len(kd.log) :
        (kd.log[i].op = "getStealthKeys") =>
            LET signature == kd.log[i].args[1]
                result == kd.log[i].result
                fk == convertStringToFluidkeySignature(signature)
            IN  /\ {"viewingKey", "spendingKey"} \subseteq DOMAIN result
                /\ \/ result = SeedKeys(IF signature = <<>> THEN DefaultSeed ELSE signature)
                   \/ /\ signature # <<>>
                      /\ signature # DefaultSeed
                      /\ ReachesKit(fk)
                      /\ result = [viewingKey |-> Wallet(KitKey("viewing", finalSignature(fk))),
                                   spendingKey |-> Wallet(KitKey("spending", finalSignature(fk)))]

\* one call fell back to the hash-based keys because the library raised on
\* a well-formed signature, another returned the library's keys
C39_Witness ==
    \E i, j \in 1 .. Len(kd.log) :
        /\ kd.log[i].op = "getStealthKeys"
        /\ kd.log[j].op = "getStealthKeys"
        /\ ReachesKit(convertStringToFluidkeySignature(kd.log[i].args[1]))
        /\ kd.log[i].args[1] \notin {<<>>, DefaultSeed}
        /\ kd.log[i].result = SeedKeys(kd.log[i].args[1])
        /\ kd.log[j].result.viewingKey.privateKey.scheme = "kit"


====
